---------------------------- MODULE Spec2Model ----------------------------
(***************************************************************************)
(* MEDIMORPH: prescription-text extraction (ai_processor.py), the reminder *)
(* scheduler (medication_reminder.py) and the two reminder threads started *)
(* by app.py.  Strings are TLA+ strings; Python's substring test, find,    *)
(* lower and strip are computed character by character.                   *)
(***************************************************************************)
EXTENDS Integers, Sequences, FiniteSets, TLC

VARIABLES
    label,        \* medication.frequency handed to the scheduler functions
    lastTaken,    \* last_taken, in hours since an epoch
    elapsed,      \* utcnow() - start_date, in hours
    times,        \* result of parse_frequency
    nextDose,     \* result of calculate_next_dose, in hours since the epoch
    expected,     \* result of _calculate_expected_doses
    done,         \* which scheduler functions have been applied
    cands,        \* the candidate list handed to merge_medications
    merged,       \* merge_medications(cands)
    remerged,     \* merge_medications(merged)
    mergePc,      \* "input", "merged" or "remerged"
    ocrText,      \* the prescription text handed to rule_based_extraction
    mention,      \* the drug mention the text was built around
    ruleMeds,     \* rule_based_extraction(text)
    extractPc,    \* "input" or "done"
    now,          \* datetime.now(), in minutes since a local midnight
    utcOffset,    \* datetime.now() - datetime.utcnow(), in minutes
    reminders,    \* the rows of table reminder, in id order
    logCount,     \* the number of rows of table medication_log
    alerts,       \* 'medication_reminder' events emitted, per row and local date
    mrPc,         \* MedicationReminder._reminder_loop: "sleep", "check", "send" or "emit"
    mrTime,       \* its current_time_str, as minutes of the day
    mrIdx,        \* its position in due_reminders
    mrRuns,       \* its passes begun in the current minute
    lgPc,         \* background_reminder_check: "sleep", "check", "emit" or "update"
    lgTime,       \* its current_time
    lgIdx,        \* its position in due_reminders
    lgRuns,       \* its passes begun in the current minute
    is_running,   \* MedicationReminder.is_running
    reminder_thread, \* MedicationReminder.reminder_thread: 0 for None, or a thread
    loopPc,       \* each _reminder_loop thread: "new", "test", "check", "sleep" or "done"
    medStore,     \* the rows of table medication, in id order
    pipeIn,       \* the value handed to clean_text and extract_medications
    cleanOut,     \* what AIProcessor.clean_text(pipeIn) yields
    ocrOut,       \* what PrescriptionOCR.clean_text(pipeIn) yields
    pipeOut,      \* what extract_medications(pipeIn) yields
    pipeDone,     \* which of the three have been called
    freqMentions, \* the medications listed in the text, each with what follows it
    freqOut,      \* the label extract_frequency_near_medication gave each, in order
    nearIn,       \* a text, the name asked for, and the duration expression the text holds
    nearOut,      \* what the three field extractors returned for it
    stratText,    \* the cleaned text both strategies are run on
    ruleOut,      \* the candidates of rule_based_extraction
    patternOut,   \* the candidates of pattern_based_extraction
    stratDone,    \* which strategies have run
    mgRunning,    \* MongoMedicationReminder.is_running
    mgPc,         \* where _reminder_loop stands: "none", "test", "check", "sleep"
    mgNow,        \* the wall clock, in seconds since midnight
    mgReminder,   \* the one active row of Reminder: its time string and whether its medication exists
    mgAlerts,     \* the alerts emitted, each the HH:MM it was sent for
    rowMeds,      \* table medication: the owner of each saved medication, by id
    rowTable      \* table reminder: the rows, each [medication_id, user_id, time]

mergeVars == <<cands, merged, remerged, mergePc>>

extractVars == <<ocrText, mention, ruleMeds, extractPc>>

remVars == <<now, utcOffset, reminders, logCount, alerts, mrPc, mrTime, mrIdx, mrRuns, lgPc, lgTime, lgIdx, lgRuns>>

schedVars == <<label, lastTaken, elapsed, times, nextDose, expected, done>>

svcVars == <<is_running, reminder_thread, loopPc>>

storeVars == <<medStore>>

pipeVars == <<pipeIn, cleanOut, ocrOut, pipeOut, pipeDone>>

freqVars == <<freqMentions, freqOut>>

nearVars == <<nearIn, nearOut>>

stratVars == <<stratText, ruleOut, patternOut, stratDone>>

mongoVars == <<mgRunning, mgPc, mgNow, mgReminder, mgAlerts>>

rowVars == <<rowMeds, rowTable>>

\* the variables outside each group
schedRest == <<mergeVars, extractVars, remVars, svcVars, storeVars, pipeVars, freqVars, nearVars, stratVars, mongoVars, rowVars>>
mergeRest == <<schedVars, extractVars, remVars, svcVars, storeVars, pipeVars, freqVars, nearVars, stratVars, mongoVars, rowVars>>
extractRest == <<schedVars, mergeVars, remVars, svcVars, storeVars, pipeVars, freqVars, nearVars, stratVars, mongoVars, rowVars>>
remRest == <<schedVars, mergeVars, extractVars, svcVars, storeVars, pipeVars, freqVars, nearVars, stratVars, mongoVars, rowVars>>
svcRest == <<schedVars, mergeVars, extractVars, remVars, storeVars, pipeVars, freqVars, nearVars, stratVars, mongoVars, rowVars>>
storeRest == <<schedVars, mergeVars, extractVars, remVars, svcVars, pipeVars, freqVars, nearVars, stratVars, mongoVars, rowVars>>
pipeRest == <<schedVars, mergeVars, extractVars, remVars, svcVars, storeVars, freqVars, nearVars, stratVars, mongoVars, rowVars>>
freqRest == <<schedVars, mergeVars, extractVars, remVars, svcVars, storeVars, pipeVars, nearVars, stratVars, mongoVars, rowVars>>
nearRest == <<schedVars, mergeVars, extractVars, remVars, svcVars, storeVars, pipeVars, freqVars, stratVars, mongoVars, rowVars>>
stratRest == <<schedVars, mergeVars, extractVars, remVars, svcVars, storeVars, pipeVars, freqVars, nearVars, mongoVars, rowVars>>
mongoRest == <<schedVars, mergeVars, extractVars, remVars, svcVars, storeVars, pipeVars, freqVars, nearVars, stratVars, rowVars>>
rowRest == <<schedVars, mergeVars, extractVars, remVars, svcVars, storeVars, pipeVars, freqVars, nearVars, stratVars, mongoVars>>

-----------------------------------------------------------------------------
(* Bounds of the model *)

MaxLastTaken == 2
MaxDaysAgo == 10
MaxCands == 3
MaxDay == 1
MaxTakes == 1
MaxAlerts == 2
MaxThreads == 3
MaxRowMeds == 2
MaxReminderRows == 3
MaxPassSeconds == 2
MaxClockMinutes == 4
MaxMentions == 2
MaxDigit == 3
MaxTextLen == 3
MaxMeds == 3

-----------------------------------------------------------------------------
(* Python string primitives *)

UpperAlpha == "ABCDEFGHIJKLMNOPQRSTUVWXYZ"
LowerAlpha == "abcdefghijklmnopqrstuvwxyz"
Digits == "0123456789"

CharAt(s, i) == SubSeq(s, i, i)

\* c in alphabet (a one-character string)
InChars(c, alphabet) == \E i \in 1..Len(alphabet) : CharAt(alphabet, i) = c

IndexIn(c, alphabet) == CHOOSE i \in 1..Len(alphabet) : CharAt(alphabet, i) = c

\* Lower-case and upper-case of each letter, as lookup tables
LowerOf == [c \in {CharAt(UpperAlpha, i) : i \in 1..Len(UpperAlpha)} |-> CharAt(LowerAlpha, IndexIn(c, UpperAlpha))]

UpperOf == [c \in {CharAt(LowerAlpha, i) : i \in 1..Len(LowerAlpha)} |-> CharAt(UpperAlpha, IndexIn(c, LowerAlpha))]

LowerChar(c) == IF c \in DOMAIN LowerOf THEN LowerOf[c] ELSE c

UpperChar(c) == IF c \in DOMAIN UpperOf THEN UpperOf[c] ELSE c

RECURSIVE Lower(_)
\* str.lower()
Lower(s) ==
    IF Len(s) = 0 THEN ""
    ELSE IF Len(s) = 1 THEN LowerChar(s)
    ELSE LET half == Len(s) \div 2
         IN  Lower(SubSeq(s, 1, half)) \o Lower(SubSeq(s, half + 1, Len(s)))

\* str.find(t): the 0-based index of the first occurrence of t in s, or -1
Find(s, t) ==
    LET hits == {i \in 1..(Len(s) - Len(t) + 1) : SubSeq(s, i, i + Len(t) - 1) = t}
    IN  IF hits = {} THEN -1 ELSE (CHOOSE i \in hits : \A j \in hits : i <= j) - 1

\* Python's `t in s`
Contains(s, t) == \E i \in 1..(Len(s) - Len(t) + 1) : SubSeq(s, i, i + Len(t) - 1) = t

DigitValue == [c \in {CharAt(Digits, i) : i \in 1..Len(Digits)} |-> IndexIn(c, Digits) - 1]

IsDigit(c) == c \in DOMAIN DigitValue

DigitVal(c) == DigitValue[c]

-----------------------------------------------------------------------------
(* Python's re: a backtracking matcher.  A pattern is a tree of nodes; M     *)
(* returns every way a node matches at a position, in the order the engine  *)
(* tries them (greedy first, alternatives left to right), so the head of    *)
(* the list for a whole pattern is the match re finds at that position.     *)
(* Positions are 1-based: p is the index of the next character to read.     *)

\* patterns
Lit(x) == [t |-> "lit", s |-> x]
Set(chars) == [t |-> "set", chars |-> chars]
NotSet(chars) == [t |-> "nset", chars |-> chars]
Cat(items) == [t |-> "seq", items |-> items]
Alt(items) == [t |-> "alt", items |-> items]
Rep(item, min, max) == [t |-> "rep", item |-> item, min |-> min, max |-> max]
Grp(n, item) == [t |-> "grp", n |-> n, item |-> item]
WordBoundary == [t |-> "wb"]

\* max of an unbounded repetition
Unbounded == -1

Star(item) == Rep(item, 0, Unbounded)
Plus(item) == Rep(item, 1, Unbounded)
Opt(item) == Rep(item, 0, 1)

\* character classes: \s (blank, tab, newline), \d, \w
SpaceChars == " \t\n"
WordChars == UpperAlpha \o LowerAlpha \o Digits \o "_"

\* a group that did not take part in the match
NoGroup == "<None>"

CharMatches(c, chars, ic) ==
    \/ InChars(c, chars)
    \/ ic /\ (InChars(LowerChar(c), chars) \/ InChars(UpperChar(c), chars))

IsWordAt(s, p) == p >= 1 /\ p <= Len(s) /\ InChars(CharAt(s, p), WordChars)

RECURSIVE M(_, _, _, _, _), MSeq(_, _, _, _, _, _), MSeqOver(_, _, _, _, _, _),
          MAlt(_, _, _, _, _, _), MRep(_, _, _, _, _, _), MRepOver(_, _, _, _, _, _, _),
          MGrp(_, _, _, _, _)

\* the matches of items[k..] at p
MSeq(items, k, s, p, caps, ic) ==
    IF k > Len(items) THEN << [pos |-> p, caps |-> caps] >>
    ELSE MSeqOver(M(items[k], s, p, caps, ic), 1, items, k, s, ic)

\* for each match rs[j..] of items[k], the matches of the rest
MSeqOver(rs, j, items, k, s, ic) ==
    IF j > Len(rs) THEN <<>>
    ELSE MSeq(items, k + 1, s, rs[j].pos, rs[j].caps, ic) \o MSeqOver(rs, j + 1, items, k, s, ic)

\* the alternatives items[k..], left to right
MAlt(items, k, s, p, caps, ic) ==
    IF k > Len(items) THEN <<>>
    ELSE M(items[k], s, p, caps, ic) \o MAlt(items, k + 1, s, p, caps, ic)

\* a greedy repetition that has matched count times: one more, else stop
MRep(node, count, s, p, caps, ic) ==
    LET more == IF node.max = Unbounded \/ count < node.max
                THEN MRepOver(M(node.item, s, p, caps, ic), 1, node, count, s, p, ic)
                ELSE <<>>
        stop == IF count >= node.min THEN << [pos |-> p, caps |-> caps] >> ELSE <<>>
    IN  more \o stop

MRepOver(rs, j, node, count, s, p, ic) ==
    IF j > Len(rs) THEN <<>>
    ELSE (IF rs[j].pos > p THEN MRep(node, count + 1, s, rs[j].pos, rs[j].caps, ic) ELSE <<>>)
         \o MRepOver(rs, j + 1, node, count, s, p, ic)

\* a capturing group records the text it matched
MGrp(rs, j, n, s, p) ==
    IF j > Len(rs) THEN <<>>
    ELSE << [pos |-> rs[j].pos, caps |-> [rs[j].caps EXCEPT ![n] = SubSeq(s, p, rs[j].pos - 1)]] >>
         \o MGrp(rs, j + 1, n, s, p)

M(node, s, p, caps, ic) ==
    CASE node.t = "lit" ->
            IF /\ p + Len(node.s) - 1 <= Len(s)
               /\ LET sub == SubSeq(s, p, p + Len(node.s) - 1)
                  IN  sub = node.s \/ (ic /\ Lower(sub) = Lower(node.s))
            THEN << [pos |-> p + Len(node.s), caps |-> caps] >>
            ELSE <<>>
      [] node.t = "set" ->
            IF p <= Len(s) /\ CharMatches(CharAt(s, p), node.chars, ic)
            THEN << [pos |-> p + 1, caps |-> caps] >>
            ELSE <<>>
      [] node.t = "nset" ->
            IF p <= Len(s) /\ ~CharMatches(CharAt(s, p), node.chars, ic)
            THEN << [pos |-> p + 1, caps |-> caps] >>
            ELSE <<>>
      [] node.t = "wb" ->
            IF IsWordAt(s, p - 1) # IsWordAt(s, p) THEN << [pos |-> p, caps |-> caps] >> ELSE <<>>
      [] node.t = "seq" -> MSeq(node.items, 1, s, p, caps, ic)
      [] node.t = "alt" -> MAlt(node.items, 1, s, p, caps, ic)
      [] node.t = "rep" -> MRep(node, 0, s, p, caps, ic)
      [] node.t = "grp" -> MGrp(M(node.item, s, p, caps, ic), 1, node.n, s, p)

\* The match re finds at position p: [start, end (exclusive), caps], or NoMatch
NoMatch == [start |-> 0, end |-> 0, caps |-> <<>>]

MatchAt(pattern, ngroups, s, p, ic) ==
    LET rs == M(pattern, s, p, [g \in 1..ngroups |-> NoGroup], ic)
    IN  IF rs = <<>> THEN NoMatch ELSE [start |-> p, end |-> rs[1].pos, caps |-> rs[1].caps]

\* re.search from position p on: the leftmost match
SearchFrom(pattern, ngroups, s, p, ic) ==
    LET starts == {q \in p..(Len(s) + 1) : MatchAt(pattern, ngroups, s, q, ic) # NoMatch}
    IN  IF starts = {} THEN NoMatch
        ELSE MatchAt(pattern, ngroups, s, CHOOSE q \in starts : \A u \in starts : q <= u, ic)

\* re.search(pattern, s)
Search(pattern, ngroups, s, ic) == SearchFrom(pattern, ngroups, s, 1, ic)

RECURSIVE FindIterFrom(_, _, _, _, _)
\* re.finditer(pattern, s): the non-overlapping matches, left to right
FindIterFrom(pattern, ngroups, s, p, ic) ==
    LET m == SearchFrom(pattern, ngroups, s, p, ic)
    IN  IF m = NoMatch THEN <<>>
        ELSE <<m>> \o FindIterFrom(pattern, ngroups, s, IF m.end > m.start THEN m.end ELSE m.end + 1, ic)

FindIter(pattern, ngroups, s, ic) == FindIterFrom(pattern, ngroups, s, 1, ic)

RECURSIVE SubOver(_, _, _, _, _)
\* the text from position p on with the matches ms[k..] replaced by repl
SubOver(ms, k, repl, s, p) ==
    IF k > Len(ms) THEN SubSeq(s, p, Len(s))
    ELSE SubSeq(s, p, ms[k].start - 1) \o repl \o SubOver(ms, k + 1, repl, s, ms[k].end)

\* re.sub(pattern, repl, s) for a repl without group references
Sub(pattern, repl, s) == SubOver(FindIter(pattern, 0, s, FALSE), 1, repl, s, 1)

-----------------------------------------------------------------------------
(* Frequency Lexicon: AIProcessor.frequency_patterns as the dict literal     *)
(* evaluates (a repeated key keeps its first position and its last value).  *)

frequency_patterns == <<
    <<"once daily (morning)", <<"1 morning", "morning">> >>,
    <<"twice daily (morning & night)", <<"1 morning, 1 night", "morning and night">> >>,
    <<"three times daily (morning, afternoon & night)",
        <<"three times daily", "three times a day", "tid", "t.i.d.", "every 8 hours", "1-1-1", "1 1 1">> >>,
    <<"twice daily (morning & afternoon)", <<"1-1-0", "1 1 0">> >>,
    <<"twice daily (afternoon & night)", <<"0-1-1", "0 1 1">> >>,
    <<"four times daily", <<"four times daily", "four times a day", "qid", "q.i.d.", "every 6 hours">> >>,
    <<"every 6 hours", <<"q6h", "qid", "every 6 hours">> >>,
    <<"every 8 hours", <<"every 8 hours", "q8h", "q.8.h.">> >>,
    <<"every 12 hours", <<"every 12 hours", "q12h", "q.12.h.">> >>,
    <<"as needed", <<"as needed", "prn", "p.r.n.", "when required", "sos">> >>,
    <<"before meals", <<"before meals", "ac", "a.c.", "ante cibum">> >>,
    <<"after meals", <<"after meals", "pc", "p.c.", "post cibum", "after food">> >>,
    <<"at bedtime", <<"at bedtime", "hs", "h.s.", "hora somni", "before sleep">> >>,
    <<"three times daily", <<"tds", "t.d.s.", "three times daily">> >>,
    <<"once daily (night)", <<"1 night", "night">> >>
>>

FrequencyKeys == {frequency_patterns[i][1] : i \in 1..Len(frequency_patterns)}

\* The labels extract_frequency_near_medication returns from its timing table
timing_patterns == <<
    <<"1-0-1", "1 0 1", "twice daily (morning & night)">>,
    <<"1-1-1", "1 1 1", "three times daily (morning, afternoon & night)">>,
    <<"1-0-0", "1 0 0", "once daily (morning)">>,
    <<"0-0-1", "0 0 1", "once daily (night)">>,
    <<"1-1-0", "1 1 0", "twice daily (morning & afternoon)">>,
    <<"0-1-1", "0 1 1", "twice daily (afternoon & night)">>,
    <<"2-0-2", "2 0 2", "twice daily (2 morning & 2 night)">>,
    <<"1-2-1", "1 2 1", "four times daily (1 morning, 2 afternoon, 1 night)">>
>>

TimingLabels == {timing_patterns[i][3] : i \in 1..Len(timing_patterns)}

-----------------------------------------------------------------------------
(* Reminder Scheduler: MedicationReminder.parse_frequency and friends *)

parse_frequency(frequency) ==
    LET f == Lower(frequency)
        has(t) == Contains(f, t)
    IN  IF has("morning") /\ has("night") THEN <<"08:00", "20:00">>
        ELSE IF has("morning") /\ has("afternoon") THEN <<"08:00", "14:00">>
        ELSE IF has("morning") THEN <<"08:00">>
        ELSE IF has("night") THEN <<"20:00">>
        ELSE IF has("tds") \/ has("t.d.s") THEN <<"08:00", "14:00", "20:00">>
        ELSE IF has("q6h") \/ has("qid") THEN <<"06:00", "12:00", "18:00", "00:00">>
        ELSE IF has("q8h") THEN <<"08:00", "16:00", "00:00">>
        ELSE IF has("q12h") \/ has("bid") THEN <<"08:00", "20:00">>
        ELSE IF has("1-0-1") \/ has("1 0 1") THEN <<"08:00", "20:00">>
        ELSE IF has("1-1-1") \/ has("1 1 1") THEN <<"08:00", "14:00", "20:00">>
        ELSE IF has("1-1-0") \/ has("1 1 0") THEN <<"08:00", "14:00">>
        ELSE IF has("0-1-1") \/ has("0 1 1") THEN <<"14:00", "20:00">>
        ELSE IF has("1-0-0") \/ has("1 0 0") THEN <<"08:00">>
        ELSE IF has("0-0-1") \/ has("0 0 1") THEN <<"20:00">>
        ELSE IF has("once daily") \/ has("daily") THEN <<"09:00">>
        ELSE IF has("twice daily") THEN <<"09:00", "21:00">>
        ELSE IF has("three times daily") THEN <<"08:00", "14:00", "20:00">>
        ELSE IF has("four times daily") THEN <<"08:00", "12:00", "16:00", "20:00">>
        ELSE IF has("every 6 hours") THEN <<"06:00", "12:00", "18:00", "00:00">>
        ELSE IF has("every 8 hours") THEN <<"08:00", "16:00", "00:00">>
        ELSE IF has("every 12 hours") THEN <<"08:00", "20:00">>
        ELSE IF has("sos") \/ has("as needed") THEN <<>>
        ELSE <<"09:00">>

\* The timedelta, in hours, calculate_next_dose adds to last_taken
NextDoseHours(frequency) ==
    LET f == Lower(frequency)
        has(t) == Contains(f, t)
    IN  IF has("once daily") \/ has("daily") THEN 24
        ELSE IF has("twice daily") \/ has("bid") THEN 12
        ELSE IF has("three times daily") \/ has("tid") THEN 8
        ELSE IF has("four times daily") \/ has("qid") THEN 6
        ELSE IF has("every 6 hours") \/ has("q6h") THEN 6
        ELSE IF has("every 8 hours") \/ has("q8h") THEN 8
        ELSE IF has("every 12 hours") \/ has("q12h") THEN 12
        ELSE 24

calculate_next_dose(frequency, last_taken) == last_taken + NextDoseHours(frequency)

\* (utcnow() - start_date).days for a non-negative difference given in hours
DaysSince(hours) == hours \div 24

calculate_expected_doses(frequency, hours) ==
    LET f == Lower(frequency)
        has(t) == Contains(f, t)
        days_since_start == DaysSince(hours)
    IN  IF has("once daily") \/ has("daily") THEN days_since_start
        ELSE IF has("twice daily") \/ has("bid") THEN days_since_start * 2
        ELSE IF has("three times daily") \/ has("tid") THEN days_since_start * 3
        ELSE IF has("four times daily") \/ has("qid") THEN days_since_start * 4
        ELSE IF has("every 6 hours") \/ has("q6h") THEN days_since_start * 4
        ELSE IF has("every 8 hours") \/ has("q8h") THEN days_since_start * 3
        ELSE IF has("every 12 hours") \/ has("q12h") THEN days_since_start * 2
        ELSE days_since_start


-----------------------------------------------------------------------------
(* Medication Lexicon: AIProcessor.medication_database, in dict order *)

medication_database == <<
    <<"aspirin", <<"aspirin", "acetylsalicylic acid", "asa">> >>,
    <<"ibuprofen", <<"ibuprofen", "advil", "motrin", "brufen">> >>,
    <<"acetaminophen", <<"acetaminophen", "paracetamol", "tylenol">> >>,
    <<"amoxicillin", <<"amoxicillin", "amoxil", "trimox">> >>,
    <<"augmentin", <<"augmentin">> >>,
    <<"metformin", <<"metformin", "glucophage">> >>,
    <<"lisinopril", <<"lisinopril", "prinivil", "zestril">> >>,
    <<"atorvastatin", <<"atorvastatin", "lipitor">> >>,
    <<"omeprazole", <<"omeprazole", "prilosec">> >>,
    <<"pand", <<"pand">> >>,
    <<"simvastatin", <<"simvastatin", "zocor">> >>,
    <<"metoprolol", <<"metoprolol", "lopressor", "toprol">> >>,
    <<"losartan", <<"losartan", "cozaar">> >>,
    <<"amlodipine", <<"amlodipine", "norvasc">> >>,
    <<"hydrochlorothiazide", <<"hydrochlorothiazide", "hctz", "microzide">> >>,
    <<"pantoprazole", <<"pantoprazole", "protonix">> >>,
    <<"carvedilol", <<"carvedilol", "coreg">> >>,
    <<"furosemide", <<"furosemide", "lasix">> >>,
    <<"spironolactone", <<"spironolactone", "aldactone">> >>,
    <<"tramadol", <<"tramadol", "ultram">> >>,
    <<"gabapentin", <<"gabapentin", "neurontin">> >>,
    <<"duloxetine", <<"duloxetine", "cymbalta">> >>,
    <<"enzoflam", <<"enzoflam">> >>,
    <<"hexigel", <<"hexigel">> >>,
    <<"calpol", <<"calpol", "syp calpol">> >>,
    <<"delcon", <<"delcon", "syp delcon">> >>,
    <<"levolin", <<"levolin", "syp levolin">> >>,
    <<"meftol", <<"meftol", "meftol-p", "syp meftol", "syp meftol-p">> >>,
    <<"abciximab", <<"abciximab", "tab abciximab">> >>,
    <<"vomilast", <<"vomilast", "tab vomilast">> >>,
    <<"zoclar", <<"zoclar", "cap zoclar">> >>,
    <<"gestakind", <<"gestakind", "tab gestakind">> >>
>>

-----------------------------------------------------------------------------
(* Context window and the dosage sub-extractor *)

\* \d+(?:\.\d+)?
NumberPattern == Cat(<<Plus(Set(Digits)), Opt(Cat(<<Lit("."), Plus(Set(Digits))>>))>>)

\* \s*
Blanks == Star(Set(SpaceChars))

\* mg|ml|g|mcg|units?
UnitPattern ==
    Alt(<<Lit("mg"), Lit("ml"), Lit("g"), Lit("mcg"), Cat(<<Lit("unit"), Opt(Lit("s"))>>)>>)

\* extract_dosage_near_medication.dosage_patterns, each with its group count
dosage_patterns == <<
    [re |-> Cat(<<Grp(1, NumberPattern), Blanks, Grp(2, UnitPattern), WordBoundary>>), groups |-> 2],
    [re |-> Cat(<<Grp(1, NumberPattern), Blanks, Grp(2, UnitPattern), Blanks,
                  Grp(3, Alt(<<Lit("tablet"), Lit("capsule"), Lit("pill"), Lit("dose")>>)),
                  WordBoundary>>), groups |-> 3],
    [re |-> Cat(<<WordBoundary,
                  Grp(1, Alt(<<Lit("625"), Lit("500"), Lit("250"), Lit("125"), Lit("40"), Lit("20"),
                               Lit("10"), Lit("5")>>)),
                  Blanks, Grp(2, Alt(<<Lit("mg"), Lit("ml")>>)), WordBoundary>>), groups |-> 2],
    [re |-> Cat(<<WordBoundary, Grp(1, Rep(Set(Digits), 2, 4)), Blanks,
                  Alt(<<Lit("mg"), Lit("ml")>>), WordBoundary>>), groups |-> 1],
    [re |-> Cat(<<WordBoundary, Grp(1, Rep(Set(Digits), 2, 4)), Blanks,
                  Alt(<<Lit("mg"), Lit("ml"), Lit("m"), Lit("g")>>), WordBoundary>>), groups |-> 1]
>>

\* \b(\d{2,4})\b
BareNumberPattern == Cat(<<WordBoundary, Grp(1, Rep(Set(Digits), 2, 4)), WordBoundary>>)

CommonDosages == {625, 500, 250, 125, 100, 75, 50, 40, 25, 20, 10, 5}

RECURSIVE IntOf(_)
\* int(s) for a string of digits
IntOf(s) == IF Len(s) = 0 THEN 0 ELSE IntOf(SubSeq(s, 1, Len(s) - 1)) * 10 + DigitVal(CharAt(s, Len(s)))

\* text[start_pos:end_pos] with start_pos = max(0, med_pos - before) and
\* end_pos = min(len(text), med_pos + after); med_pos is 0-based
Window(text, med_pos, before, after) ==
    LET start_pos == IF med_pos - before > 0 THEN med_pos - before ELSE 0
        end_pos == IF med_pos + after < Len(text) THEN med_pos + after ELSE Len(text)
    IN  SubSeq(text, start_pos + 1, end_pos)

\* str.split() yields no word: the text is empty or blank
HasNoWords(text) == \A i \in 1..Len(text) : InChars(CharAt(text, i), SpaceChars)

\* What a call returns when it reaches self.fuzzy_match, which AIProcessor
\* does not define: the AttributeError propagates to the caller
Raises == "<AttributeError>"

RECURSIVE FirstDosage(_, _)
\* the loop over dosage_patterns[k..]: the first pattern with a match decides
FirstDosage(search_text, k) ==
    IF k > Len(dosage_patterns) THEN NoGroup
    ELSE LET m == Search(dosage_patterns[k].re, dosage_patterns[k].groups, search_text, TRUE)
         IN  IF m = NoMatch THEN FirstDosage(search_text, k + 1)
             ELSE IF dosage_patterns[k].groups >= 2 THEN m.caps[1] \o " " \o m.caps[2]
             ELSE m.caps[1] \o " mg"

RECURSIVE FirstCommonNumber(_, _)
\* the loop over re.findall(r'\b(\d{2,4})\b'): the first common dosage value
FirstCommonNumber(numbers, k) ==
    IF k > Len(numbers) THEN "Unknown dosage"
    ELSE IF IntOf(numbers[k].caps[1]) \in CommonDosages THEN numbers[k].caps[1] \o " mg"
    ELSE FirstCommonNumber(numbers, k + 1)

DosageIn(search_text) ==
    LET d == FirstDosage(search_text, 1)
    IN  IF d # NoGroup THEN d
        ELSE FirstCommonNumber(FindIter(BareNumberPattern, 1, search_text, FALSE), 1)

extract_dosage_near_medication(text, medication_name) ==
    LET med_pos == Find(Lower(text), Lower(medication_name))
    IN  IF med_pos = -1
        THEN IF HasNoWords(text) THEN "Unknown dosage" ELSE Raises
        ELSE DosageIn(Window(text, med_pos, 50, 150))

-----------------------------------------------------------------------------
(* Entity Merger: AIProcessor.merge_medications *)

\* str.strip()
RECURSIVE Strip(_)
Strip(s) ==
    IF Len(s) = 0 THEN ""
    ELSE IF InChars(CharAt(s, 1), SpaceChars) THEN Strip(SubSeq(s, 2, Len(s)))
    ELSE IF InChars(CharAt(s, Len(s)), SpaceChars) THEN Strip(SubSeq(s, 1, Len(s) - 1))
    ELSE s

\* str.isdigit()
IsDigitString(s) == Len(s) > 0 /\ \A i \in 1..Len(s) : IsDigit(CharAt(s, i))

StopNames == {"mg", "ml", "tablet", "cap", "tab", "unknown medication"}

\* The `continue` of the grouping loop: names that are skipped
IsInvalidName(med_name) ==
    \/ Len(med_name) < 2
    \/ IsDigitString(med_name)
    \/ Lower(med_name) \in StopNames

\* The first existing key that equals, contains or is contained in the name
\* (0 when there is none)
FindGroup(groups, med_name_lower) ==
    LET hits == {i \in 1..Len(groups) :
                    \/ groups[i].key = med_name_lower
                    \/ Contains(med_name_lower, groups[i].key)
                    \/ Contains(groups[i].key, med_name_lower)}
    IN  IF hits = {} THEN 0 ELSE CHOOSE i \in hits : \A j \in hits : i <= j

\* The grouping loop with the name compared as written (no .lower())
AddToGroupsCaseSensitive(groups, med) ==
    LET med_name == Strip(med.name)
        g == FindGroup(groups, med_name)
    IN  IF IsInvalidName(med_name) THEN groups
        ELSE IF g = 0 THEN Append(groups, [key |-> med_name, meds |-> <<med>>])
        ELSE [groups EXCEPT ![g].meds = Append(@, med)]

\* One iteration of the grouping loop
AddToGroups(groups, med) ==
    LET med_name == Strip(med.name)
        g == FindGroup(groups, Lower(med_name))
    IN  IF IsInvalidName(med_name) THEN groups
        ELSE IF g = 0 THEN Append(groups, [key |-> Lower(med_name), meds |-> <<med>>])
        ELSE [groups EXCEPT ![g].meds = Append(@, med)]

RECURSIVE GroupAll(_, _)
GroupAll(groups, meds) ==
    IF meds = <<>> THEN groups ELSE GroupAll(AddToGroups(groups, Head(meds)), Tail(meds))

\* Ten times the score of a candidate (confidence is kept in tenths)
Score10(med) ==
    (IF Contains(med.dosage, "mg") \/ Contains(med.dosage, "ml") THEN 30
     ELSE IF Contains(med.dosage, "tablet") THEN 10
     ELSE IF ~Contains(med.dosage, "Unknown") THEN 20
     ELSE 0)
    + (IF Contains(med.frequency, "1-0-1") \/ Contains(med.frequency, "twice") THEN 20
       ELSE IF ~Contains(med.frequency, "daily") THEN 10
       ELSE 0)
    + (IF Contains(med.duration, "5 days") \/ Contains(med.duration, "1 week") THEN 20
       ELSE IF ~Contains(med.duration, "7 days")
               /\ \E i \in 1..Len(med.duration) : IsDigit(CharAt(med.duration, i)) THEN 10
       ELSE 0)
    + med.confidence

\* The selection loop with best_score never updated: the last member wins
BestMedLast(group_meds) == group_meds[Len(group_meds)]

\* The first member of the group with the maximal score (score > best_score)
BestMed(group_meds) ==
    LET score == [k \in 1..Len(group_meds) |-> Score10(group_meds[k])]
        i == CHOOSE k \in 1..Len(group_meds) :
                /\ \A j \in 1..Len(group_meds) : score[j] <= score[k]
                /\ \A j \in 1..(k - 1) : score[j] < score[k]
    IN  group_meds[i]

is_better_dosage(new_dosage, existing_dosage) ==
    \/ Contains(existing_dosage, "Unknown") /\ ~Contains(new_dosage, "Unknown")
    \/ Contains(new_dosage, "mg") /\ Contains(existing_dosage, "tablet")
    \/ Contains(new_dosage, "ml") /\ Contains(existing_dosage, "tablet")

is_better_frequency(new_freq, existing_freq) ==
    \/ /\ Contains(existing_freq, "daily")
       /\ (Contains(new_freq, "1-0-1") \/ Contains(new_freq, "twice") \/ Contains(new_freq, "three"))
    \/ Len(new_freq) > Len(existing_freq) /\ ~Contains(new_freq, "daily")

is_better_duration(new_duration, existing_duration) ==
    \/ Contains(existing_duration, "7 days") /\ ~Contains(new_duration, "7 days")
    \/ Contains(new_duration, "5 days") /\ Contains(existing_duration, "7 days")

\* One iteration of the backfill loop
Enhance(best_med, med) ==
    IF med = best_med THEN best_med
    ELSE [best_med EXCEPT
            !.dosage = IF is_better_dosage(med.dosage, @) THEN med.dosage ELSE @,
            !.frequency = IF is_better_frequency(med.frequency, @) THEN med.frequency ELSE @,
            !.duration = IF is_better_duration(med.duration, @) THEN med.duration ELSE @,
            !.instructions = IF med.instructions # "" /\ @ = "" THEN med.instructions ELSE @]

RECURSIVE EnhanceAll(_, _)
EnhanceAll(best_med, group_meds) ==
    IF group_meds = <<>> THEN best_med
    ELSE EnhanceAll(Enhance(best_med, Head(group_meds)), Tail(group_meds))

\* The candidates returned as they came, nothing grouped
merge_medications_keep_all(medications) == medications

merge_medications(medications) ==
    LET groups == GroupAll(<<>>, medications)
    IN  [g \in 1..Len(groups) |-> EnhanceAll(BestMed(groups[g].meds), groups[g].meds)]

\* AIProcessor.parse_timing_instructions: dict.get(frequency_text, frequency_text)
parse_timing_instructions(frequency_text) ==
    CASE frequency_text = "once daily (morning)" -> "Take 1 dose in the morning"
      [] frequency_text = "once daily (afternoon)" -> "Take 1 dose in the afternoon"
      [] frequency_text = "once daily (night)" -> "Take 1 dose at night"
      [] frequency_text = "twice daily (morning & night)" ->
            "Take 1 dose in the morning and 1 dose at night"
      [] frequency_text = "twice daily (morning & afternoon)" ->
            "Take 1 dose in the morning and 1 dose in the afternoon"
      [] frequency_text = "twice daily (afternoon & night)" ->
            "Take 1 dose in the afternoon and 1 dose at night"
      [] frequency_text = "three times daily (morning, afternoon & night)" ->
            "Take 1 dose in the morning, 1 dose in the afternoon, and 1 dose at night"
      [] OTHER -> frequency_text

\* The dict both extraction strategies append; confidence in tenths
Candidate(name, dosage, frequency, duration, source) ==
    [name |-> name, dosage |-> dosage, frequency |-> frequency, duration |-> duration,
     instructions |-> parse_timing_instructions(frequency),
     confidence |-> IF source = "rule_based" THEN 8 ELSE 7,
     source |-> source]

Sources == {"rule_based", "pattern_based"}

-----------------------------------------------------------------------------
(* The frequency and duration sub-extractors and the lexicon strategy *)

RECURSIVE FirstTiming(_, _)
\* the loop over timing_patterns[k..]: re.search of 'a-b-c|a b c'
FirstTiming(search_text, k) ==
    IF k > Len(timing_patterns) THEN NoGroup
    ELSE IF Contains(search_text, timing_patterns[k][1]) \/ Contains(search_text, timing_patterns[k][2])
    THEN timing_patterns[k][3]
    ELSE FirstTiming(search_text, k + 1)

RECURSIVE FirstFrequency(_, _)
\* the loop over frequency_patterns.items(): the first key with a variant in the window
FirstFrequency(search_text, k) ==
    IF k > Len(frequency_patterns) THEN NoGroup
    ELSE IF \E v \in 1..Len(frequency_patterns[k][2]) : Contains(search_text, frequency_patterns[k][2][v])
    THEN frequency_patterns[k][1]
    ELSE FirstFrequency(search_text, k + 1)

\* (\d)-(\d)-(\d)
GenericTimingPattern ==
    Cat(<<Grp(1, Set(Digits)), Lit("-"), Grp(2, Set(Digits)), Lit("-"), Grp(3, Set(Digits))>>)

\* str(n) for 0 <= n <= 27
Str(n) == IF n < 10 THEN CharAt(Digits, n + 1)
          ELSE CharAt(Digits, (n \div 10) + 1) \o CharAt(Digits, (n % 10) + 1)

GenericTiming(search_text) ==
    LET timing_match == Search(GenericTimingPattern, 3, search_text, FALSE)
        morning == timing_match.caps[1]
        afternoon == timing_match.caps[2]
        night == timing_match.caps[3]
        total_doses == DigitVal(morning) + DigitVal(afternoon) + DigitVal(night)
    IN  IF timing_match = NoMatch THEN "daily"
        ELSE IF total_doses = 1
             THEN IF morning = "1" THEN "once daily (morning)"
                  ELSE IF afternoon = "1" THEN "once daily (afternoon)"
                  ELSE "once daily (night)"
        ELSE IF total_doses = 2
             THEN IF morning = "1" /\ night = "1" THEN "twice daily (morning & night)"
                  ELSE IF morning = "1" /\ afternoon = "1" THEN "twice daily (morning & afternoon)"
                  ELSE "twice daily (afternoon & night)"
        ELSE IF total_doses = 3 THEN "three times daily (morning, afternoon & night)"
        ELSE Str(total_doses) \o " times daily"

FrequencyIn(search_text) ==
    LET t == FirstTiming(search_text, 1)
        f == FirstFrequency(search_text, 1)
    IN  IF t # NoGroup THEN t
        ELSE IF f # NoGroup THEN f
        ELSE GenericTiming(search_text)

extract_frequency_near_medication(text, medication_name) ==
    LET text_lower == Lower(text)
        med_pos == Find(text_lower, Lower(medication_name))
    IN  IF med_pos = -1
        THEN IF HasNoWords(text) THEN "daily" ELSE Raises
        ELSE FrequencyIn(Window(text_lower, med_pos, 100, 200))

\* AIProcessor.duration_patterns, in dict order
duration_patterns == <<
    <<"days", Cat(<<Grp(1, Plus(Set(Digits))), Blanks,
                    Grp(2, Alt(<<Cat(<<Lit("day"), Opt(Lit("s"))>>), Lit("d")>>))>>)>>,
    <<"weeks", Cat(<<Grp(1, Plus(Set(Digits))), Blanks,
                     Grp(2, Alt(<<Cat(<<Lit("week"), Opt(Lit("s"))>>),
                                  Cat(<<Lit("wk"), Opt(Lit("s"))>>), Lit("w")>>))>>)>>,
    <<"months", Cat(<<Grp(1, Plus(Set(Digits))), Blanks,
                      Grp(2, Alt(<<Cat(<<Lit("month"), Opt(Lit("s"))>>),
                                   Cat(<<Lit("mo"), Opt(Lit("s"))>>), Lit("m")>>))>>)>>,
    <<"years", Cat(<<Grp(1, Plus(Set(Digits))), Blanks,
                     Grp(2, Alt(<<Cat(<<Lit("year"), Opt(Lit("s"))>>),
                                  Cat(<<Lit("yr"), Opt(Lit("s"))>>), Lit("y")>>))>>)>>
>>

RECURSIVE FirstDuration(_, _)
\* the loop over duration_patterns.items(): the first type whose pattern matches
FirstDuration(search_text, k) ==
    IF k > Len(duration_patterns) THEN "7 days"
    ELSE LET match == Search(duration_patterns[k][2], 2, search_text, FALSE)
         IN  IF match # NoMatch THEN match.caps[1] \o " " \o duration_patterns[k][1]
             ELSE FirstDuration(search_text, k + 1)

extract_duration_near_medication(text, medication_name) ==
    LET text_lower == Lower(text)
        med_pos == Find(text_lower, Lower(medication_name))
    IN  IF med_pos = -1 THEN "7 days"
        ELSE FirstDuration(Window(text_lower, med_pos, 100, 200), 1)

IsAlpha(c) == InChars(c, UpperAlpha \o LowerAlpha)

RECURSIVE TitleFrom(_, _)
\* str.title(): a letter that follows a letter is lower-cased, any other is upper-cased
TitleFrom(s, i) ==
    IF i > Len(s) THEN ""
    ELSE (IF i > 1 /\ IsAlpha(CharAt(s, i - 1)) THEN LowerChar(CharAt(s, i)) ELSE UpperChar(CharAt(s, i)))
         \o TitleFrom(s, i + 1)

Title(s) == TitleFrom(s, 1)

\* the inner loop of rule_based_extraction: the first variation found in text_lower, or 0
FirstVariation(variations, text_lower) ==
    LET hits == {v \in 1..Len(variations) : Contains(text_lower, variations[v])}
    IN  IF hits = {} THEN 0 ELSE CHOOSE v \in hits : \A w \in hits : v <= w

\* the candidate rule_based_extraction appends for lexicon entry k
RuleCandidate(text, text_lower, k) ==
    LET variation == medication_database[k][2][FirstVariation(medication_database[k][2], text_lower)]
    IN  Candidate(Title(medication_database[k][1]),
                  extract_dosage_near_medication(text, variation),
                  extract_frequency_near_medication(text, variation),
                  extract_duration_near_medication(text, variation),
                  "rule_based")

\* the outer loop over medication_database.items(): the entries with a
\* variation in the text, in dict order
FoundEntries(text_lower) ==
    SelectSeq([k \in 1..Len(medication_database) |-> k],
              LAMBDA k : FirstVariation(medication_database[k][2], text_lower) # 0)

rule_based_extraction(text) ==
    LET text_lower == Lower(text)
        found == FoundEntries(text_lower)
    IN  [j \in 1..Len(found) |-> RuleCandidate(text, text_lower, found[j])]

-----------------------------------------------------------------------------
(* Text cleaning: AIProcessor.clean_text and PrescriptionOCR.clean_text *)

\* [^\w\s.,:;()\[\]{}/\-+=%]
ArtifactPattern == NotSet(WordChars \o SpaceChars \o ".,:;()[]{}/-+=%")

\* \s+
WhitespaceRun == Plus(Set(SpaceChars))

\* AIProcessor.clean_text on a str
clean_text(text) == Sub(ArtifactPattern, " ", Sub(WhitespaceRun, " ", Strip(text)))

\* PrescriptionOCR.clean_text on a str: the same two substitutions, then the
\* corrections of a standalone 0 and a standalone l
ocr_clean_text(text) ==
    Sub(Cat(<<WordBoundary, Lit("l"), WordBoundary>>), "I",
        Sub(Cat(<<WordBoundary, Lit("0"), WordBoundary>>), "O",
            Sub(ArtifactPattern, " ", Sub(WhitespaceRun, " ", Strip(text)))))

-----------------------------------------------------------------------------
(* The pattern strategy: AIProcessor.pattern_based_extraction *)

\* (\b[A-Z][a-z]+(?:[-\s][A-Z][a-z]+)*) as group n
NameGroup(n) ==
    Grp(n, Cat(<<WordBoundary, Set(UpperAlpha), Plus(Set(LowerAlpha)),
                 Star(Cat(<<Set("-" \o SpaceChars), Set(UpperAlpha), Plus(Set(LowerAlpha))>>))>>))

\* <name> \s* <number> \s* <unit> with the name in group n
NameDoseUnit(n) ==
    <<NameGroup(n), Blanks, Grp(n + 1, NumberPattern), Blanks, Grp(n + 2, UnitPattern)>>

Words(ws) == Alt([i \in 1..Len(ws) |-> Lit(ws[i])])

\* pattern_based_extraction.patterns, each with its group count
extraction_patterns == <<
    [re |-> Cat(NameDoseUnit(1) \o <<WordBoundary>>), groups |-> 3],
    [re |-> Cat(NameDoseUnit(1) \o
                <<Blanks, Grp(4, Words(<<"tablet", "capsule", "pill", "dose", "tab", "caps">>)),
                  WordBoundary>>), groups |-> 4],
    [re |-> Cat(NameDoseUnit(1) \o
                <<Blanks, Grp(4, Words(<<"once", "twice", "thrice", "daily", "bid", "tid", "qid">>)),
                  WordBoundary>>), groups |-> 4],
    [re |-> Cat(<<Grp(1, Words(<<"Tab.", "Caps.", "Syr.", "Inj.", "Tablet", "Capsule", "Syrup",
                                 "Injection">>)), Blanks>>
                \o NameDoseUnit(2) \o <<WordBoundary>>), groups |-> 4],
    [re |-> Cat(NameDoseUnit(1) \o
                <<Blanks, Grp(4, Words(<<"1-0-1", "1-0-0", "1-1-1", "0-0-1", "1-1-0">>)),
                  WordBoundary>>), groups |-> 4],
    [re |-> Cat(<<Grp(1, NumberPattern), Blanks, Grp(2, UnitPattern), Blanks, NameGroup(3),
                  WordBoundary>>), groups |-> 3],
    [re |-> Cat(<<NameGroup(1), Blanks, Opt(Words(<<"strength", "dose", "dosage">>)), Blanks,
                  Grp(2, NumberPattern), Blanks, Grp(3, UnitPattern), WordBoundary>>), groups |-> 3],
    [re |-> Cat(<<Grp(1, Words(<<"aspirin", "ibuprofen", "acetaminophen", "paracetamol",
                                 "amoxicillin", "metformin", "lisinopril", "atorvastatin",
                                 "omeprazole">>)),
                  Blanks, Grp(2, NumberPattern), Blanks, Grp(3, UnitPattern), WordBoundary>>),
     groups |-> 3],
    [re |-> Cat(<<Lit("Tab."), Blanks>> \o NameDoseUnit(1) \o <<WordBoundary>>), groups |-> 3],
    [re |-> Cat(<<Lit("Tab."), Blanks, NameGroup(1), WordBoundary>>), groups |-> 1]
>>

\* med_name and dosage as the branches on len(groups) assign them (no pattern
\* has exactly two groups)
MatchedName(groups) ==
    IF Len(groups) >= 4 THEN groups[2] ELSE groups[1]

MatchedDosage(groups) ==
    IF Len(groups) >= 4 THEN groups[3] \o " " \o groups[4]
    ELSE IF Len(groups) >= 3 THEN groups[2] \o " " \o groups[3]
    ELSE "1 tablet"

\* the first `continue` test alone: found_medications is never consulted
SkipsMatchUntracked(med_name, found_medications) ==
    \/ Len(med_name) = 0
    \/ Len(Strip(med_name)) < 3
    \/ IsDigitString(Strip(med_name))

\* the two `continue` tests on a match
SkipsMatch(med_name, found_medications) ==
    \/ Len(med_name) = 0
    \/ Len(Strip(med_name)) < 3
    \/ IsDigitString(Strip(med_name))
    \/ Lower(Strip(med_name)) \in found_medications

RECURSIVE MatchesFrom(_, _, _, _)
\* the loop over the matches ms[j..] of one pattern; acc is
\* [found |-> found_medications, meds |-> medications]
MatchesFrom(text, ms, j, acc) ==
    IF j > Len(ms) THEN acc
    ELSE LET med_name == MatchedName(ms[j].caps)
         IN  IF SkipsMatch(med_name, acc.found) THEN MatchesFrom(text, ms, j + 1, acc)
             ELSE MatchesFrom(text, ms, j + 1,
                     [found |-> acc.found \cup {Lower(Strip(med_name))},
                      meds |-> Append(acc.meds,
                                  Candidate(Title(med_name), MatchedDosage(ms[j].caps),
                                            extract_frequency_near_medication(text, med_name),
                                            extract_duration_near_medication(text, med_name),
                                            "pattern_based"))])

RECURSIVE PatternsFrom(_, _, _)
\* the loop over patterns[k..]
PatternsFrom(text, k, acc) ==
    IF k > Len(extraction_patterns) THEN acc
    ELSE PatternsFrom(text, k + 1,
            MatchesFrom(text, FindIter(extraction_patterns[k].re, extraction_patterns[k].groups,
                                       text, TRUE), 1, acc))

pattern_based_extraction(text) == PatternsFrom(text, 1, [found |-> {}, meds |-> <<>>]).meds

\* a Python value: a str, or anything else (None, a number)
StrValue(s) == [type |-> "str", value |-> s]
NoneValue == [type |-> "NoneType", value |-> ""]
IntValue == [type |-> "int", value |-> ""]

\* what a call yields: a returned value, or the exception it raises
Returns(v) == [raised |-> "", value |-> v]
RaisesError(e) == [raised |-> e, value |-> <<>>]

\* AIProcessor.clean_text on any value: text.strip() exists on str only
clean_text_call(v) ==
    IF v.type = "str" THEN Returns(clean_text(v.value)) ELSE RaisesError("AttributeError")

\* PrescriptionOCR.clean_text on any value
ocr_clean_text_call(v) ==
    IF v.type = "str" THEN Returns(ocr_clean_text(v.value)) ELSE RaisesError("AttributeError")

\* extract_medications rejecting a text that cleans to nothing but blanks
extract_medications_strict(v) ==
    IF v.type # "str" THEN RaisesError("AttributeError")
    ELSE LET cleaned_text == clean_text(v.value)
         IN  IF Len(v.value) > 0 /\ HasNoWords(cleaned_text) THEN RaisesError("ValueError")
             ELSE Returns(merge_medications(rule_based_extraction(cleaned_text)
                                            \o pattern_based_extraction(cleaned_text)))

\* AIProcessor.extract_medications: clean, both strategies, merge; nothing is caught
extract_medications(v) ==
    IF v.type # "str" THEN RaisesError("AttributeError")
    ELSE LET cleaned_text == clean_text(v.value)
         IN  Returns(merge_medications(rule_based_extraction(cleaned_text)
                                       \o pattern_based_extraction(cleaned_text)))

-----------------------------------------------------------------------------
(* The scheduler functions applied to one stored medication *)

\* Labels the '<n> times daily' branch and the single-slot branch of the
\* frequency extractor produce, and its fallback
GenericLabels == {"once daily (afternoon)", "0 times daily", "4 times daily", "daily"}

\* Every key of the Frequency Lexicon and every label the extractor returns
CanonicalLabels == FrequencyKeys \cup TimingLabels \cup GenericLabels

\* The plain labels of the documented table
PlainLabels == {"once daily", "twice daily", "three times daily", "four times daily", "as needed", "sos"}

\* Frequencies a user types for a manual medication (POST /medications)
TypedLabels == {"Twice Daily", "bid", "tid", "qid", "tds", "q6h", "q8h", "q12h", "weekly"}

SchedulerLabels == CanonicalLabels \cup PlainLabels \cup TypedLabels

HoursAgo == {d * 24 + h : d \in 0..MaxDaysAgo, h \in {0, 12}}

SchedInput ==
    /\ label \in SchedulerLabels
    /\ lastTaken \in 0..MaxLastTaken
    /\ elapsed \in HoursAgo
    /\ times = <<>>
    /\ nextDose = -1
    /\ expected = -1
    /\ done = {}

SchedIdle ==
    /\ label = ""
    /\ lastTaken = 0
    /\ elapsed = 0
    /\ times = <<>>
    /\ nextDose = -1
    /\ expected = -1
    /\ done = {}

\* upload_prescription / medications(POST): reminder times of a new medication
ParseFrequency ==
    /\ "parse" \notin done
    /\ times' = parse_frequency(label)
    /\ done' = done \cup {"parse"}
    /\ UNCHANGED <<label, lastTaken, elapsed, nextDose, expected, schedRest>>

\* take_medication: reminder.next_dose
CalculateNextDose ==
    /\ "next" \notin done
    /\ nextDose' = calculate_next_dose(label, lastTaken)
    /\ done' = done \cup {"next"}
    /\ UNCHANGED <<label, lastTaken, elapsed, times, expected, schedRest>>

\* get_user_compliance_stats: expected doses since start_date
CalculateExpectedDoses ==
    /\ "expected" \notin done
    /\ expected' = calculate_expected_doses(label, elapsed)
    /\ done' = done \cup {"expected"}
    /\ UNCHANGED <<label, lastTaken, elapsed, times, nextDose, schedRest>>

-----------------------------------------------------------------------------
(* merge_medications applied to a candidate list, and again to its output *)

\* Names as the extractors title-case them, one contained in another, and a
\* lower-case spelling
MergeNames == {"Pan", "Pand", "And", "pand"}

\* Lists vary the name and the dosage of pattern-based candidates
ListCandidates ==
    {Candidate(n, d, "daily", "7 days", "pattern_based") :
        n \in MergeNames, d \in {"Unknown dosage", "1 tablet", "40 mg"}}

CandidateLists == UNION {[1..n -> ListCandidates] : n \in 0..MaxCands}

\* The candidate an extractor emits when it finds the bare name only
BareCandidate(n, s) == Candidate(n, "Unknown dosage", "daily", "7 days", s)

CompleteCandidates(n) ==
    {Candidate(n, d, f, du, s) :
        d \in {"1 tablet", "40 mg", "5 ml"},
        f \in CanonicalLabels \ {"daily"},
        du \in {"7 days", "5 days", "2 weeks", "17 days"},
        s \in Sources}

\* The same drug twice: once bare, once complete, in either order
BareCompletePairs ==
    UNION {UNION {{<<BareCandidate(n, s), c>>, <<c, BareCandidate(n, s)>>} :
                    c \in CompleteCandidates(n)} :
            <<n, s>> \in MergeNames \X Sources}

\* The same drug twice: once with a dosage and a short course but the
\* frequency fallback, once with a frequency label, in either order
DailyLabelledPairs ==
    UNION {{<<Candidate("Pand", "40 mg", "daily", "5 days", s1), Candidate("Pand", d, f, "7 days", s2)>>,
            <<Candidate("Pand", d, f, "7 days", s2), Candidate("Pand", "40 mg", "daily", "5 days", s1)>>} :
            <<s1, s2, d, f>> \in Sources \X Sources \X {"Unknown dosage", "40 mg"}
                                 \X (CanonicalLabels \ {"daily"})}

MergeInput ==
    /\ cands \in CandidateLists \cup BareCompletePairs \cup DailyLabelledPairs
    /\ merged = <<>>
    /\ remerged = <<>>
    /\ mergePc = "input"

MergeIdle ==
    /\ cands = <<>>
    /\ merged = <<>>
    /\ remerged = <<>>
    /\ mergePc = "idle"

\* extract_medications: unique_medications = self.merge_medications(extracted_meds)
Merge ==
    /\ mergePc = "input"
    /\ merged' = merge_medications(cands)
    /\ mergePc' = "merged"
    /\ UNCHANGED <<cands, remerged, mergeRest>>

\* merge_medications called on a list that is already merged
Remerge ==
    /\ mergePc = "merged"
    /\ remerged' = merge_medications(merged)
    /\ mergePc' = "remerged"
    /\ UNCHANGED <<cands, merged, mergeRest>>

-----------------------------------------------------------------------------
(* rule_based_extraction applied to a text built around one drug mention *)

\* what precedes the mention: nothing, a form word, another medication with
\* its own dosage, and one whose dosage lies more than 50 characters back
Prefixes == {"", "Tab. ", "Augmentin 625 mg ",
             "Metformin 500 mg was stopped last month by the treating doctor on review. "}

\* a lexicon key with one of its variations as it is written in a prescription
Mentions == {<<"aspirin", "Aspirin">>, <<"aspirin", "asa">>, <<"acetaminophen", "Paracetamol">>,
             <<"pand", "PanD">>, <<"ibuprofen", "Brufen">>, <<"calpol", "Syp Calpol">>}

Doses == {"100", "75", "2.5", "5"}

Suffixes == {"", " 1-0-1 x 5 days", " daily"}

ExtractInput ==
    /\ \E pre \in Prefixes, m \in Mentions, n \in Doses, suf \in Suffixes :
          /\ mention = [drug |-> m[1], variant |-> m[2], n |-> n]
          /\ ocrText = pre \o m[2] \o " " \o n \o " mg" \o suf
    /\ ruleMeds = <<>>
    /\ extractPc = "input"

ExtractIdle ==
    /\ ocrText = ""
    /\ mention = [drug |-> "", variant |-> "", n |-> ""]
    /\ ruleMeds = <<>>
    /\ extractPc = "idle"

RuleBasedExtraction ==
    /\ extractPc = "input"
    /\ ruleMeds' = rule_based_extraction(ocrText)
    /\ extractPc' = "done"
    /\ UNCHANGED <<ocrText, mention, extractRest>>

-----------------------------------------------------------------------------
(* The reminder service: the MedicationReminder polling loop, the legacy     *)
(* background_reminder_check thread and take-medication requests, over the   *)
(* rows of table reminder.  Datetimes are minutes since a local midnight; a  *)
(* nullable column is the empty set or a singleton.                          *)

MinutesPerDay == 24 * 60

\* datetime.date() and the minutes of datetime.time() / strftime('%H:%M')
DateOf(t) == t \div MinutesPerDay
TimeOf(t) == t % MinutesPerDay

Abs(x) == IF x < 0 THEN -x ELSE x

\* MedicationReminder._is_time_match
is_time_match(current_total_min, reminder_total_min) ==
    Abs(current_total_min - reminder_total_min) <= 1

\* MedicationReminder._reminder_sent_today, with today = datetime.now().date()
reminder_sent_today(reminder, today) ==
    IF reminder.last_taken = {} THEN FALSE
    ELSE \E t \in reminder.last_taken : DateOf(t) = today

\* MedicationReminder._is_reminder_due (rows are loaded with is_active = True)
is_reminder_due(reminder, current_time) ==
    IF TimeOf(current_time) >= reminder.time
    THEN ~(\E t \in reminder.last_taken : DateOf(t) = DateOf(current_time))
    ELSE FALSE

\* calculate_next_dose on datetimes in minutes
NextDoseAfter(frequency, last_taken) == last_taken + 60 * NextDoseHours(frequency)

\* The instants of a day at which the clock is observed: around the reminder
\* times, and later in the evening
InstantsOfDay == {19 * 60 + 59, 20 * 60, 20 * 60 + 1, 20 * 60 + 2, 23 * 60}

Instants == {d * MinutesPerDay + m : d \in 1..MaxDay, m \in InstantsOfDay}

\* The tables a start-up finds: one reminder, or two medications with one each
ReminderTables == {
    << [medication_id |-> 1, frequency |-> "once daily (morning)", time |-> 20 * 60,
        last_taken |-> {}, next_dose |-> {}] >>,
    << [medication_id |-> 1, frequency |-> "once daily (morning)", time |-> 20 * 60,
        last_taken |-> {}, next_dose |-> {}],
       [medication_id |-> 2, frequency |-> "every 12 hours", time |-> 20 * 60 + 1,
        last_taken |-> {}, next_dose |-> {}] >> }

\* local time is UTC, or UTC-05:00
UtcOffsets == {0, -(5 * 60)}

Rows == 1..Len(reminders)

ReminderInput ==
    /\ now = MinutesPerDay + 19 * 60 + 59
    /\ utcOffset \in UtcOffsets
    /\ reminders \in ReminderTables
    /\ logCount = 0
    /\ alerts = [k \in (1..2) \X (1..MaxDay) |-> 0]
    /\ mrPc = "sleep" /\ mrTime = 0 /\ mrIdx = 0 /\ mrRuns = 0
    /\ lgPc = "sleep" /\ lgTime = 0 /\ lgIdx = 0 /\ lgRuns = 0

ReminderIdle ==
    /\ now = 0
    /\ utcOffset = 0
    /\ reminders = <<>>
    /\ logCount = 0
    /\ alerts = <<>>
    /\ mrPc = "off" /\ mrTime = 0 /\ mrIdx = 0 /\ mrRuns = 0
    /\ lgPc = "off" /\ lgTime = 0 /\ lgIdx = 0 /\ lgRuns = 0

\* time.sleep(seconds) between passes: how many passes can begin in one minute
PassesPerMinute(seconds) == 60 \div seconds

\* the wall clock moves to the next observed instant
Tick ==
    /\ \E t \in Instants :
          /\ t > now
          /\ \A u \in Instants : u > now => t <= u
          /\ now' = t
    /\ mrRuns' = 0
    /\ lgRuns' = 0
    /\ UNCHANGED <<utcOffset, reminders, logCount, alerts, mrPc, mrTime, mrIdx, lgPc, lgTime, lgIdx>>
    /\ UNCHANGED remRest

\* socketio.emit('medication_reminder', ...) for row r
Emit(r) == [alerts EXCEPT ![<<r, DateOf(now)>>] = @ + 1]

\* _check_and_send_reminders: current_time_str and the query
MRQuery ==
    /\ mrPc = "sleep"
    /\ mrRuns < PassesPerMinute(30)
    /\ mrRuns' = mrRuns + 1
    /\ mrTime' = TimeOf(now)
    /\ mrIdx' = 1
    /\ mrPc' = "check"
    /\ UNCHANGED <<now, utcOffset, reminders, logCount, alerts, lgPc, lgTime, lgIdx, lgRuns>>
    /\ UNCHANGED remRest

\* the for loop moves to the next row, or the pass ends and the thread sleeps
MRAdvance ==
    IF mrIdx < Len(reminders)
    THEN mrIdx' = mrIdx + 1 /\ mrPc' = "check" /\ mrTime' = mrTime
    ELSE mrIdx' = 0 /\ mrPc' = "sleep" /\ mrTime' = 0

\* _is_time_match and _reminder_sent_today for the row at hand
MRCheck ==
    /\ mrPc = "check"
    /\ IF /\ is_time_match(mrTime, reminders[mrIdx].time)
          /\ ~reminder_sent_today(reminders[mrIdx], DateOf(now))
       THEN mrPc' = "send" /\ UNCHANGED <<mrTime, mrIdx>>
       ELSE MRAdvance
    /\ UNCHANGED <<now, utcOffset, reminders, logCount, alerts, lgPc, lgTime, lgIdx, mrRuns, lgRuns>>
    /\ UNCHANGED remRest

\* _send_reminder_alert: last_taken = datetime.now() and the commit
MRUpdate ==
    /\ mrPc = "send"
    /\ reminders' = [reminders EXCEPT ![mrIdx].last_taken = {now}]
    /\ mrPc' = "emit"
    /\ UNCHANGED <<now, utcOffset, logCount, alerts, mrTime, mrIdx, lgPc, lgTime, lgIdx, mrRuns, lgRuns>>
    /\ UNCHANGED remRest

\* _send_reminder_alert: the WebSocket notification
MREmit ==
    /\ mrPc = "emit"
    /\ alerts[<<mrIdx, DateOf(now)>>] < MaxAlerts
    /\ alerts' = Emit(mrIdx)
    /\ MRAdvance
    /\ UNCHANGED <<now, utcOffset, reminders, logCount, lgPc, lgTime, lgIdx, mrRuns, lgRuns>>
    /\ UNCHANGED remRest

\* background_reminder_check: current_time and the query
LegacyQuery ==
    /\ lgPc = "sleep"
    /\ lgRuns < PassesPerMinute(60)
    /\ lgRuns' = lgRuns + 1
    /\ lgTime' = now
    /\ lgIdx' = 1
    /\ lgPc' = "check"
    /\ UNCHANGED <<now, utcOffset, reminders, logCount, alerts, mrPc, mrTime, mrIdx, mrRuns>>
    /\ UNCHANGED remRest

LegacyAdvance ==
    IF lgIdx < Len(reminders)
    THEN lgIdx' = lgIdx + 1 /\ lgPc' = "check" /\ lgTime' = lgTime
    ELSE lgIdx' = 0 /\ lgPc' = "sleep" /\ lgTime' = 0

\* reminder_system._is_reminder_due for the row at hand
LegacyCheck ==
    /\ lgPc = "check"
    /\ IF is_reminder_due(reminders[lgIdx], lgTime)
       THEN lgPc' = "emit" /\ UNCHANGED <<lgTime, lgIdx>>
       ELSE LegacyAdvance
    /\ UNCHANGED <<now, utcOffset, reminders, logCount, alerts, mrPc, mrTime, mrIdx, mrRuns, lgRuns>>
    /\ UNCHANGED remRest

\* the real-time notification
LegacyEmit ==
    /\ lgPc = "emit"
    /\ alerts[<<lgIdx, DateOf(now)>>] < MaxAlerts
    /\ alerts' = Emit(lgIdx)
    /\ lgPc' = "update"
    /\ UNCHANGED <<now, utcOffset, reminders, logCount, mrPc, mrTime, mrIdx, lgTime, lgIdx, mrRuns, lgRuns>>
    /\ UNCHANGED remRest

\* last_taken = current_time, next_dose and the commit
LegacyUpdate ==
    /\ lgPc = "update"
    /\ reminders' = [reminders EXCEPT
                        ![lgIdx].last_taken = {lgTime},
                        ![lgIdx].next_dose = {NextDoseAfter(reminders[lgIdx].frequency, lgTime)}]
    /\ LegacyAdvance
    /\ UNCHANGED <<now, utcOffset, logCount, alerts, mrPc, mrTime, mrIdx, mrRuns, lgRuns>>
    /\ UNCHANGED remRest

\* Reminder.query.filter_by(medication_id=...).first(): the first row of the medication
FirstReminder(medication_id) ==
    CHOOSE r \in Rows :
        /\ reminders[r].medication_id = medication_id
        /\ \A q \in Rows : reminders[q].medication_id = medication_id => r <= q

\* POST /take-medication/<medication_id>: the log entry, last_taken = utcnow(),
\* next_dose and the commit
TakeMedication ==
    /\ mrPc # "off"
    /\ logCount < MaxTakes
    /\ \E m \in {reminders[r].medication_id : r \in Rows} :
          LET r == FirstReminder(m)
              utcnow == now - utcOffset
          IN  reminders' = [reminders EXCEPT
                               ![r].last_taken = {utcnow},
                               ![r].next_dose = {NextDoseAfter(reminders[r].frequency, utcnow)}]
    /\ logCount' = logCount + 1
    /\ UNCHANGED <<now, utcOffset, alerts, mrPc, mrTime, mrIdx, lgPc, lgTime, lgIdx, mrRuns, lgRuns>>
    /\ UNCHANGED remRest

NextReminder ==
    \/ Tick
    \/ MRQuery
    \/ MRCheck
    \/ MRUpdate
    \/ MREmit
    \/ LegacyQuery
    \/ LegacyCheck
    \/ LegacyEmit
    \/ LegacyUpdate
    \/ TakeMedication

-----------------------------------------------------------------------------
(* The reminder service's life cycle: start_reminder_service and             *)
(* stop_reminder_service called one after another on one MedicationReminder, *)
(* and the _reminder_loop threads they leave behind.                         *)

Threads == 1..MaxThreads

\* a thread that has not returned from _reminder_loop
Alive(t) == loopPc[t] \in {"test", "check", "sleep", "backoff"}

ServiceInput ==
    /\ is_running = FALSE
    /\ reminder_thread = 0
    /\ loopPc = [t \in Threads |-> "new"]

ServiceIdle ==
    /\ is_running = FALSE
    /\ reminder_thread = 0
    /\ loopPc = <<>>

\* start_reminder_service: a second call while is_running does nothing
StartReminderService ==
    /\ loopPc # <<>>
    /\ IF ~is_running
       THEN \E t \in Threads :
               /\ loopPc[t] = "new"
               /\ \A u \in Threads : loopPc[u] = "new" => t <= u
               /\ is_running' = TRUE
               /\ reminder_thread' = t
               /\ loopPc' = [loopPc EXCEPT ![t] = "test"]
       ELSE UNCHANGED svcVars
    /\ UNCHANGED svcRest

\* stop_reminder_service: the flag is cleared; join(timeout=1) returns when
\* the thread has ended or after one second, whichever comes first
StopReminderService ==
    /\ loopPc # <<>>
    /\ is_running' = FALSE
    /\ UNCHANGED <<reminder_thread, loopPc>>
    /\ UNCHANGED svcRest

\* _reminder_loop: while self.is_running
LoopTest(t) ==
    /\ loopPc[t] = "test"
    /\ loopPc' = [loopPc EXCEPT ![t] = IF is_running THEN "check" ELSE "done"]
    /\ UNCHANGED <<is_running, reminder_thread>>
    /\ UNCHANGED svcRest

\* _reminder_loop: self._check_and_send_reminders() returns
LoopCheck(t) ==
    /\ loopPc[t] = "check"
    /\ loopPc' = [loopPc EXCEPT ![t] = "sleep"]
    /\ UNCHANGED <<is_running, reminder_thread>>
    /\ UNCHANGED svcRest

\* the handler of the loop made to let the exception end the thread
LoopCheckRaisesUncaught(t) ==
    /\ loopPc[t] = "check"
    /\ loopPc' = [loopPc EXCEPT ![t] = "done"]
    /\ UNCHANGED <<is_running, reminder_thread>>
    /\ UNCHANGED svcRest

\* _reminder_loop: an exception leaves _check_and_send_reminders and is
\* caught by `except Exception`, which prints it and sleeps
LoopCheckRaises(t) ==
    /\ loopPc[t] = "check"
    /\ loopPc' = [loopPc EXCEPT ![t] = "backoff"]
    /\ UNCHANGED <<is_running, reminder_thread>>
    /\ UNCHANGED svcRest

\* _reminder_loop: time.sleep(60) of the handler returns
LoopBackoffWake(t) ==
    /\ loopPc[t] = "backoff"
    /\ loopPc' = [loopPc EXCEPT ![t] = "test"]
    /\ UNCHANGED <<is_running, reminder_thread>>
    /\ UNCHANGED svcRest

\* _reminder_loop: time.sleep(30) returns
LoopWake(t) ==
    /\ loopPc[t] = "sleep"
    /\ loopPc' = [loopPc EXCEPT ![t] = "test"]
    /\ UNCHANGED <<is_running, reminder_thread>>
    /\ UNCHANGED svcRest

NextService ==
    \/ StartReminderService
    \/ StopReminderService
    \/ \E t \in Threads : LoopTest(t)
    \/ \E t \in Threads : LoopCheck(t)
    \/ \E t \in Threads : LoopCheckRaises(t)
    \/ \E t \in Threads : LoopBackoffWake(t)
    \/ \E t \in Threads : LoopWake(t)

-----------------------------------------------------------------------------
(* The medication store: the handlers of app.py that write table medication. *)
(* A row carries the columns the handlers compare; its id is its position.   *)

Users == {1, 2}
StoreNames == {"Aspirin", "Pand"}
StoreDosages == {"100 mg", "40 mg"}
StoreFrequencies == {"daily", "once daily (morning)"}

\* an extracted medication, or the body of a request
MedData == [name : StoreNames, dosage : StoreDosages, frequency : StoreFrequencies]

\* what extract_medications hands to upload_prescription: merged records, one per name
UploadLists ==
    {<<m>> : m \in MedData}
    \cup {<<m, n>> : m \in {d \in MedData : d.name = "Aspirin"}, n \in {d \in MedData : d.name = "Pand"}}

\* what a PUT body may carry: each key is present or absent
Absent == "<absent>"
UpdateData == [name : StoreNames \cup {Absent}, dosage : StoreDosages \cup {Absent},
               frequency : StoreFrequencies \cup {Absent}]

MedRow(user_id, data) ==
    [user_id |-> user_id, name |-> data.name, dosage |-> data.dosage,
     frequency |-> data.frequency, is_active |-> TRUE]

\* Medication.query.filter_by(user_id, name, dosage, frequency, is_active=True).first()
ExistingMed(store, user_id, med) ==
    \E i \in 1..Len(store) :
        /\ store[i].user_id = user_id
        /\ store[i].name = med.name
        /\ store[i].dosage = med.dosage
        /\ store[i].frequency = med.frequency
        /\ store[i].is_active

RECURSIVE SaveMedications(_, _, _, _)
\* upload_prescription: the loop over medications[k..]; a query sees the rows
\* the session has added before it
SaveMedications(store, user_id, medications, k) ==
    IF k > Len(medications) THEN store
    ELSE IF ExistingMed(store, user_id, medications[k])
         THEN SaveMedications(store, user_id, medications, k + 1)
         ELSE SaveMedications(Append(store, MedRow(user_id, medications[k])), user_id, medications, k + 1)

StoreInput == medStore = <<>>

StoreIdle == medStore = <<>>

\* POST /upload-prescription
UploadPrescription ==
    /\ \E u \in Users, medications \in UploadLists :
          /\ Len(medStore) + Len(medications) <= MaxMeds
          /\ medStore' = SaveMedications(medStore, u, medications, 1)
    /\ UNCHANGED storeRest

\* POST /medications: 409 when the user has an active medication of that name
AddMedication ==
    /\ \E u \in Users, data \in MedData :
          /\ Len(medStore) < MaxMeds
          /\ medStore' =
                IF \E i \in 1..Len(medStore) :
                      /\ medStore[i].user_id = u
                      /\ medStore[i].name = data.name
                      /\ medStore[i].is_active
                THEN medStore
                ELSE Append(medStore, MedRow(u, data))
    /\ UNCHANGED storeRest

\* PUT /medications/<medication_id>: data.get(key, the stored value)
UpdateMedication ==
    /\ \E u \in Users, medication_id \in 1..Len(medStore), data \in UpdateData :
          /\ medStore[medication_id].user_id = u
          /\ medStore' = [medStore EXCEPT
                ![medication_id].name = IF data.name = Absent THEN @ ELSE data.name,
                ![medication_id].dosage = IF data.dosage = Absent THEN @ ELSE data.dosage,
                ![medication_id].frequency = IF data.frequency = Absent THEN @ ELSE data.frequency]
    /\ UNCHANGED storeRest

\* DELETE /medications/<medication_id>
DeleteMedication ==
    /\ \E u \in Users, medication_id \in 1..Len(medStore) :
          /\ medStore[medication_id].user_id = u
          /\ medStore' = [medStore EXCEPT ![medication_id].is_active = FALSE]
    /\ UNCHANGED storeRest

NextStore ==
    \/ UploadPrescription
    \/ AddMedication
    \/ UpdateMedication
    \/ DeleteMedication

-----------------------------------------------------------------------------
(* The cleaners and extract_medications applied to one input value *)

\* the characters short inputs are made of: digits, whitespace, a symbol
\* outside the allow-list and one inside it
TextAlphabet == <<"1", "0", " ", "\t", "#", "-">>

RECURSIVE TextsOfLen(_)
TextsOfLen(n) ==
    IF n = 0 THEN {""}
    ELSE {s \o TextAlphabet[i] : s \in TextsOfLen(n - 1), i \in 1..Len(TextAlphabet)}

ShortTexts == UNION {TextsOfLen(n) : n \in 0..MaxTextLen}

\* prescription lines
PrescriptionTexts == {"Tab. Augmentin 625mg 1-0-1 x 5 days", "Tab. PanD 40mg 1-0-0 x 7 days",
                      "Tab. Enzoflam"}

PipeInputs == {NoneValue, IntValue} \cup {StrValue(s) : s \in ShortTexts \cup PrescriptionTexts}

NotCalled == [raised |-> "", value |-> "<not called>"]

PipeInput ==
    /\ pipeIn \in PipeInputs
    /\ cleanOut = NotCalled
    /\ ocrOut = NotCalled
    /\ pipeOut = NotCalled
    /\ pipeDone = {}

PipeIdle ==
    /\ pipeIn = NoneValue
    /\ cleanOut = NotCalled
    /\ ocrOut = NotCalled
    /\ pipeOut = NotCalled
    /\ pipeDone = {"idle"}

CleanText ==
    /\ pipeDone \cap {"idle", "clean_text"} = {}
    /\ cleanOut' = clean_text_call(pipeIn)
    /\ pipeDone' = pipeDone \cup {"clean_text"}
    /\ UNCHANGED <<pipeIn, ocrOut, pipeOut>>
    /\ UNCHANGED pipeRest

OcrCleanText ==
    /\ pipeDone \cap {"idle", "ocr_clean_text"} = {}
    /\ ocrOut' = ocr_clean_text_call(pipeIn)
    /\ pipeDone' = pipeDone \cup {"ocr_clean_text"}
    /\ UNCHANGED <<pipeIn, cleanOut, pipeOut>>
    /\ UNCHANGED pipeRest

ExtractMedications ==
    /\ pipeDone \cap {"idle", "extract_medications"} = {}
    /\ pipeOut' = extract_medications(pipeIn)
    /\ pipeDone' = pipeDone \cup {"extract_medications"}
    /\ UNCHANGED <<pipeIn, cleanOut, ocrOut>>
    /\ UNCHANGED pipeRest

NextPipe ==
    \/ CleanText
    \/ OcrCleanText
    \/ ExtractMedications

-----------------------------------------------------------------------------
(* extract_frequency_near_medication applied to each medication of a text *)

\* the k-th medication of a text and its dosage
MentionNames == <<"Augmentin", "PanD", "Calpol">>
MentionDoses == <<"625mg", "40mg", "5ml">>

\* numeric timing codes: four of the table, two outside it
TimingCodes == {"1-0-1", "1-0-0", "0-0-1", "1-1-1", "3-3-3", "0-1-0"}

Abbreviations == {"tds", "bid", "qid", "q6h", "q8h", "q12h", "sos", "prn"}

\* every X-Y-Z code with digits up to MaxDigit
Triplets ==
    {Str(m) \o "-" \o Str(a) \o "-" \o Str(n) : m \in 0..MaxDigit, a \in 0..MaxDigit, n \in 0..MaxDigit}

\* what follows a medication: a code, an abbreviation, both, or nothing
Tails ==
    {[code |-> c, abbr |-> a] : c \in TimingCodes \cup Triplets \cup {""}, a \in Abbreviations \cup {""}}

\* a text of several medications gives each a code or an abbreviation
ListedTails == {t \in Tails : t.code \in TimingCodes \cup {""} /\ (t.code = "") # (t.abbr = "")}

MentionLists ==
    {<<t>> : t \in Tails} \cup
    UNION {[1..n -> ListedTails] : n \in 2..MaxMentions}

MentionText(k, t) ==
    "Tab. " \o MentionNames[k] \o " " \o MentionDoses[k]
        \o (IF t.code = "" THEN "" ELSE " " \o t.code)
        \o (IF t.abbr = "" THEN "" ELSE " " \o t.abbr)

RECURSIVE TextOf(_, _)
\* the mentions from the k-th on, separated by blanks
TextOf(mentions, k) ==
    IF k > Len(mentions) THEN ""
    ELSE MentionText(k, mentions[k]) \o (IF k < Len(mentions) THEN " " ELSE "") \o TextOf(mentions, k + 1)

FrequencyInput ==
    /\ freqMentions \in MentionLists
    /\ freqOut = <<>>

FrequencyIdle ==
    /\ freqMentions = <<>>
    /\ freqOut = <<>>

\* the call made for the next medication of the text
FrequencyNear ==
    /\ Len(freqOut) < Len(freqMentions)
    /\ freqOut' = Append(freqOut, extract_frequency_near_medication(
                      TextOf(freqMentions, 1), MentionNames[Len(freqOut) + 1]))
    /\ UNCHANGED freqMentions
    /\ UNCHANGED freqRest

NextFrequency == FrequencyNear

-----------------------------------------------------------------------------
(* The field extractors called with a name that may not occur in the text *)

NearPrefixes == {"Aspirin ", "Tab. Aspirin "}

NearDoses == {"500mg", "100 mg", "5 ml", "2 g", ""}

\* duration expressions, and none
NearTails == {"", " x 5 days", " for 2 weeks", " 10d"}

\* texts without any medication: words, nothing, blanks
OtherTexts == {"Take rest", "", "   "}

\* a name the prescription texts hold and one they do not
NearNames == {"Aspirin", "Crocin"}

NearInputs ==
    {[text |-> pre \o dose \o tail, name |-> n, tail |-> tail] :
        pre \in NearPrefixes, dose \in NearDoses, tail \in NearTails, n \in NearNames}
    \cup {[text |-> t, name |-> n, tail |-> ""] : t \in OtherTexts, n \in NearNames}

NothingCalled == [dosage |-> "<not called>", frequency |-> "<not called>", duration |-> "<not called>"]

NearInput ==
    /\ nearIn \in NearInputs
    /\ nearOut = NothingCalled

NearIdle ==
    /\ nearIn = [text |-> "", name |-> "", tail |-> ""]
    /\ nearOut = NothingCalled

ExtractDosageNear ==
    /\ nearIn.name # ""
    /\ nearOut.dosage = "<not called>"
    /\ nearOut' = [nearOut EXCEPT !.dosage = extract_dosage_near_medication(nearIn.text, nearIn.name)]
    /\ UNCHANGED nearIn
    /\ UNCHANGED nearRest

ExtractFrequencyNear ==
    /\ nearIn.name # ""
    /\ nearOut.frequency = "<not called>"
    /\ nearOut' = [nearOut EXCEPT !.frequency = extract_frequency_near_medication(nearIn.text, nearIn.name)]
    /\ UNCHANGED nearIn
    /\ UNCHANGED nearRest

ExtractDurationNear ==
    /\ nearIn.name # ""
    /\ nearOut.duration = "<not called>"
    /\ nearOut' = [nearOut EXCEPT !.duration = extract_duration_near_medication(nearIn.text, nearIn.name)]
    /\ UNCHANGED nearIn
    /\ UNCHANGED nearRest

NextNear ==
    \/ ExtractDosageNear
    \/ ExtractFrequencyNear
    \/ ExtractDurationNear

-----------------------------------------------------------------------------
(* The two extraction strategies run on one prescription line *)

LineNames == {"Calpol", "Augmentin"}

LineNumbers == {"5", "2.5"}

LineUnits == {"mg", "ml"}

\* one line per surface form the patterns are written for, and lines that
\* name the medication twice
LinesFor(n, d, u) ==
    LET dose == d \o " " \o u
    IN  {n \o " " \o dose,
         n \o " " \o d \o u,
         n \o " " \o dose \o " tab",
         n \o " " \o dose \o " twice",
         "Tab. " \o n \o " " \o dose,
         n \o " " \o dose \o " 1-0-1",
         dose \o " " \o n,
         n \o " strength " \o dose,
         "aspirin " \o dose,
         "Tab. " \o n,
         "Syp " \o n \o " " \o dose,
         n \o " " \o dose \o " " \o Lower(n) \o " " \o dose}

StrategyLines == UNION {LinesFor(n, d, u) : n \in LineNames, d \in LineNumbers, u \in LineUnits}

StrategyInput ==
    /\ stratText \in StrategyLines
    /\ ruleOut = <<>>
    /\ patternOut = <<>>
    /\ stratDone = {}

StrategyIdle ==
    /\ stratText = ""
    /\ ruleOut = <<>>
    /\ patternOut = <<>>
    /\ stratDone = {"idle"}

\* extract_medications: rule_based_meds = self.rule_based_extraction(cleaned_text)
RunRuleBased ==
    /\ stratDone \cap {"idle", "rule_based"} = {}
    /\ ruleOut' = rule_based_extraction(stratText)
    /\ stratDone' = stratDone \cup {"rule_based"}
    /\ UNCHANGED <<stratText, patternOut>>
    /\ UNCHANGED stratRest

\* extract_medications: pattern_meds = self.pattern_based_extraction(cleaned_text)
RunPatternBased ==
    /\ stratDone \cap {"idle", "pattern_based"} = {}
    /\ patternOut' = pattern_based_extraction(stratText)
    /\ stratDone' = stratDone \cup {"pattern_based"}
    /\ UNCHANGED <<stratText, ruleOut>>
    /\ UNCHANGED stratRest

NextStrategy ==
    \/ RunRuleBased
    \/ RunPatternBased

-----------------------------------------------------------------------------
(* MongoMedicationReminder: the loop that compares HH:MM strings and sleeps   *)
(* 60 seconds after every pass                                               *)

TwoDigits(n) == CharAt(Digits, (n \div 10) + 1) \o CharAt(Digits, (n % 10) + 1)

\* datetime.now().strftime('%H:%M') for a clock in seconds
StrfHM(seconds) == TwoDigits((seconds \div 3600) % 24) \o ":" \o TwoDigits((seconds \div 60) % 60)

\* the seconds one pass of _check_and_send_reminders may take
PassSeconds == 0..MaxPassSeconds

\* the clock when the service starts: any second of the minute before the
\* reminder's
StartSeconds == 0..59

ReminderTime == "00:01"

MongoInput ==
    /\ mgRunning = FALSE
    /\ mgPc = "none"
    /\ mgNow \in StartSeconds
    /\ mgReminder \in {[time |-> ReminderTime, medication |-> m] : m \in BOOLEAN}
    /\ mgAlerts = <<>>

MongoIdle ==
    /\ mgRunning = FALSE
    /\ mgPc = "idle"
    /\ mgNow = 0
    /\ mgReminder = [time |-> "", medication |-> FALSE]
    /\ mgAlerts = <<>>

\* start_reminder_service
MongoStart ==
    /\ mgPc = "none"
    /\ ~mgRunning
    /\ mgRunning' = TRUE
    /\ mgPc' = "test"
    /\ UNCHANGED <<mgNow, mgReminder, mgAlerts>>
    /\ UNCHANGED mongoRest

\* while self.is_running
MongoLoopTest ==
    /\ mgPc = "test"
    /\ mgNow < MaxClockMinutes * 60
    /\ mgPc' = IF mgRunning THEN "check" ELSE "none"
    /\ UNCHANGED <<mgRunning, mgNow, mgReminder, mgAlerts>>
    /\ UNCHANGED mongoRest

\* _check_and_send_reminders and _send_reminder_alert; the pass takes d seconds
MongoCheck ==
    /\ mgPc = "check"
    /\ \E d \in PassSeconds :
          /\ mgAlerts' = IF StrfHM(mgNow) = mgReminder.time /\ mgReminder.medication
                         THEN Append(mgAlerts, mgReminder.time)
                         ELSE mgAlerts
          /\ mgNow' = mgNow + d
    /\ mgPc' = "sleep"
    /\ UNCHANGED <<mgRunning, mgReminder>>
    /\ UNCHANGED mongoRest

\* time.sleep(60)
MongoSleep ==
    /\ mgPc = "sleep"
    /\ mgNow' = mgNow + 60
    /\ mgPc' = "test"
    /\ UNCHANGED <<mgRunning, mgReminder, mgAlerts>>
    /\ UNCHANGED mongoRest

NextMongo ==
    \/ MongoStart
    \/ MongoLoopTest
    \/ MongoCheck
    \/ MongoSleep

-----------------------------------------------------------------------------
(* The rows of table reminder under upload, POST/PUT/DELETE /api/reminders    *)

\* datetime.strptime(s, '%H:%M').time(), as minutes since midnight
Strptime(s) ==
    LET colon == Find(s, ":")
    IN  IntOf(SubSeq(s, 1, colon)) * 60 + IntOf(SubSeq(s, colon + 2, Len(s)))

\* the frequencies of uploaded medications and the times requests carry
UploadFrequencies == {"once daily (morning)", "twice daily (morning & night)"}
RequestTimes == {"08:00", "8:00", "20:00"}

\* Reminder.query.filter_by(medication_id, user_id, time).first()
ExistingReminder(table, medication_id, user_id, time) ==
    \E i \in 1..Len(table) :
        /\ table[i].medication_id = medication_id
        /\ table[i].user_id = user_id
        /\ table[i].time = time

RECURSIVE CreateReminders(_, _, _, _, _)
\* upload_prescription: for time_str in reminder_times[k..]
CreateReminders(table, medication_id, user_id, reminder_times, k) ==
    IF k > Len(reminder_times) THEN table
    ELSE LET time == Strptime(reminder_times[k])
             next == IF ExistingReminder(table, medication_id, user_id, time) THEN table
                     ELSE Append(table, [medication_id |-> medication_id, user_id |-> user_id, time |-> time])
         IN  CreateReminders(next, medication_id, user_id, reminder_times, k + 1)

RowsInput ==
    /\ rowMeds = <<>>
    /\ rowTable = <<>>

RowsIdle ==
    /\ rowMeds = <<0>>
    /\ rowTable = <<>>

\* upload_prescription: a new medication is saved and its reminders set up
UploadReminders ==
    /\ rowMeds # <<0>>
    /\ Len(rowMeds) < MaxRowMeds
    /\ \E u \in Users, f \in UploadFrequencies :
          /\ Len(rowTable) + Len(parse_frequency(f)) <= MaxReminderRows
          /\ rowMeds' = Append(rowMeds, u)
          /\ rowTable' = CreateReminders(rowTable, Len(rowMeds) + 1, u, parse_frequency(f), 1)
    /\ UNCHANGED rowRest

\* POST /api/reminders and MedicationReminder.add_custom_reminder
AddCustomReminder ==
    /\ rowMeds # <<0>>
    /\ Len(rowTable) < MaxReminderRows
    /\ \E u \in Users, medication_id \in 1..Len(rowMeds), reminder_time \in RequestTimes :
          /\ rowMeds[medication_id] = u
          /\ rowTable' = CreateReminders(rowTable, medication_id, u, <<reminder_time>>, 1)
    /\ UNCHANGED rowMeds
    /\ UNCHANGED rowRest

\* PUT /api/reminders/<id>
UpdateReminder ==
    /\ \E u \in Users, reminder_id \in 1..Len(rowTable), new_time \in RequestTimes :
          /\ rowTable[reminder_id].user_id = u
          /\ rowTable' = [rowTable EXCEPT ![reminder_id].time = Strptime(new_time)]
    /\ UNCHANGED rowMeds
    /\ UNCHANGED rowRest

\* DELETE /api/reminders/<id>
DeleteReminder ==
    /\ \E u \in Users, reminder_id \in 1..Len(rowTable) :
          /\ rowTable[reminder_id].user_id = u
          /\ rowTable' = [i \in 1..(Len(rowTable) - 1) |->
                            IF i < reminder_id THEN rowTable[i] ELSE rowTable[i + 1]]
    /\ UNCHANGED rowMeds
    /\ UNCHANGED rowRest

NextRows ==
    \/ UploadReminders
    \/ AddCustomReminder
    \/ UpdateReminder
    \/ DeleteReminder

vars == <<schedVars, mergeVars, extractVars, remVars, svcVars, storeVars, pipeVars, freqVars, nearVars, stratVars, mongoVars, rowVars>>

InitRows == RowsInput /\ SchedIdle /\ MergeIdle /\ ExtractIdle /\ ReminderIdle /\ ServiceIdle /\ StoreIdle /\ PipeIdle /\ FrequencyIdle /\ NearIdle /\ StrategyIdle /\ MongoIdle

SpecRows == InitRows /\ [][NextRows]_vars

InitMongo == MongoInput /\ SchedIdle /\ MergeIdle /\ ExtractIdle /\ ReminderIdle /\ ServiceIdle /\ StoreIdle /\ PipeIdle /\ FrequencyIdle /\ NearIdle /\ StrategyIdle /\ RowsIdle

SpecMongo == InitMongo /\ [][NextMongo]_vars

InitStrategy == StrategyInput /\ SchedIdle /\ MergeIdle /\ ExtractIdle /\ ReminderIdle /\ ServiceIdle /\ StoreIdle /\ PipeIdle /\ FrequencyIdle /\ NearIdle /\ MongoIdle /\ RowsIdle

SpecStrategy == InitStrategy /\ [][NextStrategy]_vars

InitNear == NearInput /\ SchedIdle /\ MergeIdle /\ ExtractIdle /\ ReminderIdle /\ ServiceIdle /\ StoreIdle /\ PipeIdle /\ FrequencyIdle /\ StrategyIdle /\ MongoIdle /\ RowsIdle

SpecNear == InitNear /\ [][NextNear]_vars

InitFrequency == FrequencyInput /\ SchedIdle /\ MergeIdle /\ ExtractIdle /\ ReminderIdle /\ ServiceIdle /\ StoreIdle /\ PipeIdle /\ NearIdle /\ StrategyIdle /\ MongoIdle /\ RowsIdle

SpecFrequency == InitFrequency /\ [][NextFrequency]_vars

InitPipe == PipeInput /\ SchedIdle /\ MergeIdle /\ ExtractIdle /\ ReminderIdle /\ ServiceIdle /\ StoreIdle /\ FrequencyIdle /\ NearIdle /\ StrategyIdle /\ MongoIdle /\ RowsIdle

SpecPipe == InitPipe /\ [][NextPipe]_vars

InitStore == StoreInput /\ SchedIdle /\ MergeIdle /\ ExtractIdle /\ ReminderIdle /\ ServiceIdle /\ PipeIdle /\ FrequencyIdle /\ NearIdle /\ StrategyIdle /\ MongoIdle /\ RowsIdle

SpecStore == InitStore /\ [][NextStore]_vars

InitService == ServiceInput /\ SchedIdle /\ MergeIdle /\ ExtractIdle /\ ReminderIdle /\ StoreIdle /\ PipeIdle /\ FrequencyIdle /\ NearIdle /\ StrategyIdle /\ MongoIdle /\ RowsIdle

SpecService == InitService /\ [][NextService]_vars

\* a started thread is scheduled: each step of its loop is eventually taken
LoopFairness ==
    \A t \in Threads :
        /\ WF_vars(LoopTest(t))
        /\ WF_vars(LoopCheck(t) \/ LoopCheckRaises(t))
        /\ WF_vars(LoopBackoffWake(t))
        /\ WF_vars(LoopWake(t))

SpecServiceLive == SpecService /\ LoopFairness

InitReminder == ReminderInput /\ SchedIdle /\ MergeIdle /\ ExtractIdle /\ ServiceIdle /\ StoreIdle /\ PipeIdle /\ FrequencyIdle /\ NearIdle /\ StrategyIdle /\ MongoIdle /\ RowsIdle

SpecReminder == InitReminder /\ [][NextReminder]_vars

InitExtract == ExtractInput /\ SchedIdle /\ MergeIdle /\ ReminderIdle /\ ServiceIdle /\ StoreIdle /\ PipeIdle /\ FrequencyIdle /\ NearIdle /\ StrategyIdle /\ MongoIdle /\ RowsIdle

NextExtract == RuleBasedExtraction

SpecExtract == InitExtract /\ [][NextExtract]_vars

InitMerge == MergeInput /\ SchedIdle /\ ExtractIdle /\ ReminderIdle /\ ServiceIdle /\ StoreIdle /\ PipeIdle /\ FrequencyIdle /\ NearIdle /\ StrategyIdle /\ MongoIdle /\ RowsIdle

NextMerge ==
    \/ Merge
    \/ Remerge

SpecMerge == InitMerge /\ [][NextMerge]_vars

InitSched == SchedInput /\ MergeIdle /\ ExtractIdle /\ ReminderIdle /\ ServiceIdle /\ StoreIdle /\ PipeIdle /\ FrequencyIdle /\ NearIdle /\ StrategyIdle /\ MongoIdle /\ RowsIdle

NextSched ==
    \/ ParseFrequency
    \/ CalculateNextDose
    \/ CalculateExpectedDoses

SpecSched == InitSched /\ [][NextSched]_vars

-----------------------------------------------------------------------------
(* Clock strings *)

IsHHMM(s) ==
    /\ Len(s) = 5
    /\ CharAt(s, 3) = ":"
    /\ \A i \in {1, 2, 4, 5} : IsDigit(CharAt(s, i))
    /\ DigitVal(CharAt(s, 1)) * 10 + DigitVal(CharAt(s, 2)) <= 23
    /\ DigitVal(CharAt(s, 4)) * 10 + DigitVal(CharAt(s, 5)) <= 59

MinuteOfDay(s) ==
    (DigitVal(CharAt(s, 1)) * 10 + DigitVal(CharAt(s, 2))) * 60
        + DigitVal(CharAt(s, 4)) * 10 + DigitVal(CharAt(s, 5))

-----------------------------------------------------------------------------
(* Claims about the scheduler *)

SlotQualifiedTable == <<
    <<"once daily (morning)", <<"08:00">> >>,
    <<"once daily (afternoon)", <<"14:00">> >>,
    <<"once daily (night)", <<"20:00">> >>,
    <<"twice daily (morning & night)", <<"08:00", "20:00">> >>,
    <<"twice daily (morning & afternoon)", <<"08:00", "14:00">> >>,
    <<"twice daily (afternoon & night)", <<"14:00", "20:00">> >>,
    <<"three times daily (morning, afternoon & night)", <<"08:00", "14:00", "20:00">> >>
>>

\* C2: for every slot-qualified frequency label, parse_frequency returns
\* exactly the fixed slot times (morning 08:00, afternoon 14:00, night 20:00)
\* of the slots the qualifier names.
C2_SlotQualifiedTimes ==
    \A i \in 1..Len(SlotQualifiedTable) :
        ("parse" \in done /\ label = SlotQualifiedTable[i][1])
            => times = SlotQualifiedTable[i][2]

PlainTable == <<
    <<"once daily", <<"09:00">> >>,
    <<"twice daily", <<"09:00", "21:00">> >>,
    <<"three times daily", <<"08:00", "14:00", "20:00">> >>,
    <<"four times daily", <<"08:00", "12:00", "16:00", "20:00">> >>,
    <<"as needed", <<>> >>,
    <<"sos", <<>> >>
>>

\* C3: parse_frequency agrees with the documented table on the plain labels
\* once / twice / three times / four times daily, and gives no reminder time
\* for 'as needed' and 'sos'.
C3_PlainTableTimes ==
    \A i \in 1..Len(PlainTable) :
        ("parse" \in done /\ label = PlainTable[i][1]) => times = PlainTable[i][2]

\* C4: for every canonical frequency label, parse_frequency returns valid
\* HH:MM strings in strictly increasing clock order (sorted, no duplicates).
C4_TimesSortedDistinct ==
    ("parse" \in done /\ label \in CanonicalLabels) =>
        /\ \A i \in 1..Len(times) : IsHHMM(times[i])
        /\ \A i, j \in 1..Len(times) : i < j => MinuteOfDay(times[i]) < MinuteOfDay(times[j])

\* The interval, in hours, of a label's frequency class as documented
ClassIntervalHours(frequency) ==
    LET f == Lower(frequency)
        has(t) == Contains(f, t)
    IN  IF has("once daily") THEN 24
        ELSE IF has("twice daily") \/ has("every 12 hours") THEN 12
        ELSE IF has("three times daily") \/ has("every 8 hours") THEN 8
        ELSE IF has("four times daily") \/ has("every 6 hours") THEN 6
        ELSE 24

\* C5: calculate_next_dose returns last_taken plus the fixed interval of the
\* label's frequency class (24h once, 12h twice / every 12 hours, 8h three
\* times / every 8 hours, 6h four times / every 6 hours, 24h otherwise).
C5_NextDoseInterval ==
    "next" \in done => nextDose = lastTaken + ClassIntervalHours(label)

\* Doses per day of a label's frequency class as documented
ClassDosesPerDay(frequency) ==
    LET f == Lower(frequency)
        has(t) == Contains(f, t)
    IN  IF has("once daily") THEN 1
        ELSE IF has("twice daily") THEN 2
        ELSE IF has("three times daily") THEN 3
        ELSE IF has("four times daily") THEN 4
        ELSE 1

\* C6: _calculate_expected_doses returns daysSince(start) * dosesPerDay(label)
\* with dosesPerDay 1/2/3/4 for once/twice/three-times/four-times daily; for
\* 'twice daily' and a start 10 days in the past it returns 20.
C6_ExpectedDoses ==
    "expected" \in done =>
        /\ expected = DaysSince(elapsed) * ClassDosesPerDay(label)
        /\ (label = "twice daily" /\ elapsed = 240) => expected = 20

-----------------------------------------------------------------------------
(* Claims about the merger *)

\* C7: merge_medications is idempotent on merged output: merging the merged
\* list again gives the same records in the same order.
C7_MergeIdempotent ==
    mergePc = "remerged" => remerged = merged

NormName(med) == Lower(Strip(med.name))

\* C8: no two records returned by merge_medications have the same trimmed,
\* lower-cased name.
C8_MergedNamesUnique ==
    mergePc # "input" =>
        \A i, j \in 1..Len(merged) : i # j => NormName(merged[i]) # NormName(merged[j])

\* C8 witness: several records are returned from a list with more candidates
\* than groups, and a group's representative carries a name other than its key.
C8_Witness ==
    /\ mergePc = "merged"
    /\ Len(merged) >= 2
    /\ Len(cands) > Len(merged)
    /\ \E g \in 1..Len(merged) : GroupAll(<<>>, cands)[g].key # NormName(merged[g])

IsBare(med) ==
    med.dosage = "Unknown dosage" /\ med.frequency = "daily" /\ med.duration = "7 days"

IsComplete(med) == med.dosage # "Unknown dosage" /\ med.frequency # "daily"

\* C9: the same name as two candidates, one bare and one complete, merges to
\* exactly one record with the complete candidate's dosage, frequency and
\* duration, in either input order and for either strategy's confidence.
C9_BareCompleteMerge ==
    \A b, c \in {1, 2} :
        (/\ mergePc = "merged"
         /\ Len(cands) = 2
         /\ b # c
         /\ cands[1].name = cands[2].name
         /\ ~IsInvalidName(Strip(cands[1].name))
         /\ IsBare(cands[b])
         /\ IsComplete(cands[c]))
        => /\ Len(merged) = 1
           /\ merged[1].dosage = cands[c].dosage
           /\ merged[1].frequency = cands[c].frequency
           /\ merged[1].duration = cands[c].duration

\* C9 witness: the bare candidate comes first with the higher confidence, and
\* the complete one carries a slot-qualified once-daily frequency.
C9_Witness ==
    /\ mergePc = "merged"
    /\ Len(cands) = 2
    /\ cands[1].name = cands[2].name
    /\ IsBare(cands[1])
    /\ cands[1].confidence = 8
    /\ IsComplete(cands[2])
    /\ cands[2].confidence = 7
    /\ cands[2].dosage = "1 tablet"
    /\ cands[2].frequency = "once daily (night)"
    /\ Len(merged) = 1


-----------------------------------------------------------------------------
(* Lexicon strategy *)

\* C1: for a text in which a lexicon variant of drug D is immediately followed
\* by "<n> mg", rule_based_extraction returns exactly one candidate for D and
\* that candidate's dosage is "<n> mg", whatever precedes the mention
C1_AdjacentDosage ==
    extractPc = "done" =>
        LET forD == {i \in 1..Len(ruleMeds) : ruleMeds[i].name = Title(mention.drug)}
        IN  /\ Cardinality(forD) = 1
            /\ \A i \in forD : ruleMeds[i].dosage = mention.n \o " mg"

-----------------------------------------------------------------------------
(* Reminder service *)

\* C10: for each reminder row at most one 'medication_reminder' alert is
\* emitted per calendar day, under every interleaving of the polling loop,
\* the legacy thread and take-medication requests
C10_OneAlertPerDay ==
    \A k \in DOMAIN alerts : alerts[k] <= 1

-----------------------------------------------------------------------------
(* Reminder service life cycle *)

\* C11: after any sequence of start_reminder_service and stop_reminder_service
\* calls, at most one _reminder_loop thread is performing reminder checks at
\* any time
C11_SingleLoop ==
    Cardinality({t \in DOMAIN loopPc : loopPc[t] = "check"}) <= 1

-----------------------------------------------------------------------------
(* Medication store *)

\* C12: after any sequence of uploads, manual additions, updates (PUT) and
\* deactivations the store holds at most one active medication record per
\* (user, name, dosage, frequency)
C12_OneActivePerTuple ==
    \A i, j \in 1..Len(medStore) :
        (/\ i < j
         /\ medStore[i].is_active /\ medStore[j].is_active
         /\ medStore[i].user_id = medStore[j].user_id
         /\ medStore[i].name = medStore[j].name
         /\ medStore[i].dosage = medStore[j].dosage) => medStore[i].frequency # medStore[j].frequency

-----------------------------------------------------------------------------
(* Cleaning and the whole pipeline *)

\* C13: a non-string input or the empty string passed to clean_text or
\* extract_medications yields an empty result and never raises
C13_EmptyOnNonString ==
    (pipeIn.type # "str" \/ pipeIn.value = "") =>
        /\ "clean_text" \in pipeDone => cleanOut = Returns("")
        /\ "extract_medications" \in pipeDone => pipeOut = Returns(<<>>)

\* a string made only of symbols, punctuation and whitespace
IsGarbage(v) ==
    /\ v.type = "str"
    /\ \A i \in 1..Len(v.value) : InChars(CharAt(v.value, i), " \t#-")

\* C14: for garbage input extract_medications returns the empty list and
\* never raises
C14_GarbageYieldsNothing ==
    (IsGarbage(pipeIn) /\ "extract_medications" \in pipeDone) => pipeOut = Returns(<<>>)

C14_Witness ==
    /\ IsGarbage(pipeIn)
    /\ Len(pipeIn.value) >= 3
    /\ Contains(pipeIn.value, "#")
    /\ "extract_medications" \in pipeDone
    /\ pipeOut = Returns(<<>>)

AugmentinLine == "Tab. Augmentin 625mg 1-0-1 x 5 days"

\* C15: for 'Tab. Augmentin 625mg 1-0-1 x 5 days' extract_medications yields
\* exactly one record for Augmentin, with dosage '625 mg', frequency
\* 'twice daily (morning & night)' and duration '5 days'
C15_AugmentinRecord ==
    (pipeIn = StrValue(AugmentinLine) /\ "extract_medications" \in pipeDone) =>
        /\ pipeOut.raised = ""
        /\ LET recs == {i \in 1..Len(pipeOut.value) : pipeOut.value[i].name = "Augmentin"}
           IN  /\ Cardinality(recs) = 1
               /\ \A i \in recs :
                     /\ pipeOut.value[i].dosage = "625 mg"
                     /\ pipeOut.value[i].frequency = "twice daily (morning & night)"
                     /\ pipeOut.value[i].duration = "5 days"

C15_Witness ==
    /\ pipeIn = StrValue(AugmentinLine)
    /\ "extract_medications" \in pipeDone
    /\ pipeOut.raised = ""
    /\ Len(pipeOut.value) = 1
    /\ pipeOut.value[1].name = "Augmentin"

IsSpace(c) == InChars(c, SpaceChars)

\* C16: the output of clean_text contains no two consecutive whitespace
\* characters and no leading or trailing whitespace
C16_CollapsedAndTrimmed ==
    (pipeIn.type = "str" /\ "clean_text" \in pipeDone) =>
        LET out == cleanOut.value
        IN  /\ cleanOut.raised = ""
            /\ \A i \in 1..(Len(out) - 1) : ~(IsSpace(CharAt(out, i)) /\ IsSpace(CharAt(out, i + 1)))
            /\ Len(out) > 0 => (~IsSpace(CharAt(out, 1)) /\ ~IsSpace(CharAt(out, Len(out))))

RECURSIVE DigitsOf(_)
\* the digit characters of a string, in order
DigitsOf(s) ==
    IF Len(s) = 0 THEN ""
    ELSE (IF IsDigit(CharAt(s, 1)) THEN CharAt(s, 1) ELSE "") \o DigitsOf(SubSeq(s, 2, Len(s)))

\* C17: both cleaners return a string whose digit characters, in order, are
\* exactly those of the input
C17_DigitsPreserved ==
    pipeIn.type = "str" =>
        /\ "clean_text" \in pipeDone =>
              (cleanOut.raised = "" /\ DigitsOf(cleanOut.value) = DigitsOf(pipeIn.value))
        /\ "ocr_clean_text" \in pipeDone =>
              (ocrOut.raised = "" /\ DigitsOf(ocrOut.value) = DigitsOf(pipeIn.value))

-----------------------------------------------------------------------------
(* Frequency labels *)

\* the label a numeric code stands for: its table entry, else the X-Y-Z rule
CodeLabel(code) ==
    IF FirstTiming(code, 1) # NoGroup THEN FirstTiming(code, 1) ELSE GenericTiming(code)

\* C18: in a text of two or more medications, each followed by its own
\* numeric timing code, every medication gets the label of its own code
C18_OwnTimingCode ==
    (Len(freqMentions) >= 2 /\ \A k \in 1..Len(freqMentions) : freqMentions[k].code # "") =>
        \A k \in 1..Len(freqOut) : freqOut[k] = CodeLabel(freqMentions[k].code)

\* the window of the k-th medication of the text
WindowOf(mentions, k) ==
    LET text_lower == Lower(TextOf(mentions, 1))
    IN  Window(text_lower, Find(text_lower, Lower(MentionNames[k])), 100, 200)

HasNumericCode(search_text) == Search(GenericTimingPattern, 3, search_text, FALSE) # NoMatch

\* C19: whenever the window holds a d-d-d triplet the label returned is the
\* one derived from a numeric code, whatever abbreviation stands beside it
C19_NumericCodeFirst ==
    \A k \in 1..Len(freqOut) :
        HasNumericCode(WindowOf(freqMentions, k)) =>
            \E j \in 1..Len(freqMentions) :
                freqMentions[j].code # "" /\ freqOut[k] = CodeLabel(freqMentions[j].code)

CanonicalLabelsOf(abbr) ==
    CASE abbr = "bid" -> {"twice daily", "twice daily (morning & night)"}
      [] abbr = "tds" -> {"three times daily", "three times daily (morning, afternoon & night)"}
      [] abbr = "qid" -> {"four times daily", "every 6 hours"}
      [] abbr = "q6h" -> {"every 6 hours"}
      [] abbr = "q8h" -> {"every 8 hours"}
      [] abbr = "q12h" -> {"every 12 hours"}
      [] abbr \in {"sos", "prn"} -> {"as needed"}
      [] OTHER -> {}

\* C20: with no numeric code in the window and one of the abbreviations as a
\* token, the label is that abbreviation's canonical one, never 'daily'
C20_AbbreviationLabel ==
    (Len(freqMentions) = 1 /\ freqMentions[1].code = "" /\ freqMentions[1].abbr # ""
        /\ Len(freqOut) = 1) =>
        freqOut[1] \in CanonicalLabelsOf(freqMentions[1].abbr)

\* the digits of an X-Y-Z code
SlotDoses(code) == <<DigitVal(CharAt(code, 1)), DigitVal(CharAt(code, 3)), DigitVal(CharAt(code, 5))>>

TotalDoses(code) == SlotDoses(code)[1] + SlotDoses(code)[2] + SlotDoses(code)[3]

CountWords == <<"once daily", "twice daily", "three times daily">>

SlotNames == <<"morning", "afternoon", "night">>

\* the code reaches the X-Y-Z rule: neither the timing table nor the lexicon holds it
IsGenericCode(code) == FirstTiming(code, 1) = NoGroup /\ FirstFrequency(code, 1) = NoGroup

\* C21: for a triplet of one to three doses handled by the generic rule the
\* label starts with the count word of its number of doses and names exactly
\* the slots whose digit is non-zero
C21_GenericLabelMatchesSlots ==
    (Len(freqMentions) = 1 /\ Len(freqOut) = 1 /\ freqMentions[1].abbr = ""
        /\ freqMentions[1].code # "" /\ IsGenericCode(freqMentions[1].code)
        /\ TotalDoses(freqMentions[1].code) \in 1..3) =>
        LET code == freqMentions[1].code
            out == freqOut[1]
            word == CountWords[TotalDoses(code)]
        IN  /\ Len(out) >= Len(word) /\ SubSeq(out, 1, Len(word)) = word
            /\ \A k \in 1..3 : Contains(out, SlotNames[k]) <=> SlotDoses(code)[k] # 0

\* C22: every label extract_frequency_near_medication returns is a key of
\* frequency_patterns or the fallback 'daily'
C22_LabelIsLexiconKey ==
    \A k \in 1..Len(freqOut) : freqOut[k] \in FrequencyKeys \cup {"daily"}

-----------------------------------------------------------------------------
(* Sentinels of the field extractors *)

\* the name does not occur in a text that has words
IsAbsentMention(in) == Find(Lower(in.text), Lower(in.name)) = -1 /\ ~HasNoWords(in.text)

\* C24: when the name does not occur in a non-empty text the dosage
\* extractor returns 'Unknown dosage' and the frequency extractor 'daily';
\* neither raises
C24_SentinelsForAbsentMention ==
    IsAbsentMention(nearIn) =>
        /\ nearOut.dosage \in {"<not called>", "Unknown dosage"}
        /\ nearOut.frequency \in {"<not called>", "daily"}

\* C26: a text whose window holds no duration expression, only a dosage,
\* gets the default '7 days'
C26_DefaultDuration ==
    (nearIn.tail = "" /\ nearOut.duration # "<not called>") => nearOut.duration = "7 days"

\* C25: a merged record has frequency 'daily' only if every candidate of its
\* group has frequency 'daily'
C25_LabelBeatsDaily ==
    mergePc = "merged" =>
        \A g \in 1..Len(merged) :
            merged[g].frequency = "daily" =>
                \A i \in 1..Len(cands) :
                    (~IsInvalidName(Strip(cands[i].name)) /\ NormName(cands[i]) = NormName(merged[g]))
                        => cands[i].frequency = "daily"

-----------------------------------------------------------------------------
(* Candidates of the two strategies *)

HasDigit(s) == \E i \in 1..Len(s) : IsDigit(CharAt(s, i))

\* '<number> <unit>' with an integer or decimal number and a dosage unit
IsNumberAndUnit(dosage) ==
    \E d \in LineNumbers, u \in LineUnits : dosage = d \o " " \o u

\* C23: a candidate of pattern_based_extraction is named by the captured
\* name, never by the captured number or unit, and its dosage is
\* '<number> <unit>' or '1 tablet'
C23_NameAndDosageGroups ==
    \A i \in 1..Len(patternOut) :
        /\ ~HasDigit(patternOut[i].name)
        /\ Lower(patternOut[i].name) \notin LineUnits
        /\ IsNumberAndUnit(patternOut[i].dosage) \/ patternOut[i].dosage = "1 tablet"

\* C30: rule_based_extraction returns at most one candidate per lexicon drug
\* and pattern_based_extraction at most one per trimmed, lower-cased name
C30_OneCandidatePerName ==
    /\ \A i, j \in 1..Len(ruleOut) : i # j => ruleOut[i].name # ruleOut[j].name
    /\ \A i, j \in 1..Len(patternOut) :
          i # j => Lower(Strip(patternOut[i].name)) # Lower(Strip(patternOut[j].name))

\* C30 witness: a line that names Calpol twice, in two spellings and with a
\* second lexicon variation, has gone through both strategies
C30_Witness ==
    /\ stratDone = {"rule_based", "pattern_based"}
    /\ Contains(stratText, "Calpol") /\ Contains(stratText, "calpol")
    /\ Len(ruleOut) = 1
    /\ \E i \in 1..Len(patternOut) : Lower(patternOut[i].name) = "calpol"

-----------------------------------------------------------------------------
(* The MongoDB reminder loop *)

\* C27: while the service runs no due reminder is skipped: once a check is
\* made after the reminder's minute, started before it, an alert has been sent
C27_NoReminderSkipped ==
    (mgRunning /\ mgReminder.medication /\ mgPc = "check" /\ mgNow >= 2 * 60) => Len(mgAlerts) >= 1

-----------------------------------------------------------------------------
(* Reminder rows *)

\* C28: no two rows of table reminder share (user, medication, time)
C28_OneRowPerTime ==
    \A i, j \in 1..Len(rowTable) :
        i # j => <<rowTable[i].user_id, rowTable[i].medication_id, rowTable[i].time>>
                 # <<rowTable[j].user_id, rowTable[j].medication_id, rowTable[j].time>>

\* the same property on every step that is not a PUT
C28_WithoutUpdates ==
    [][UpdateReminder \/ (C28_OneRowPerTime => C28_OneRowPerTime')]_vars

\* a thread ends only by reading is_running = False at the while test
EndsOnlyAtTest ==
    [][\A t \in Threads : (loopPc[t] # "done" /\ loopPc'[t] = "done") => (loopPc[t] = "test" /\ ~is_running)]_vars

\* C29: an exception raised during a check never ends _reminder_loop, and
\* while is_running stays true another check is eventually performed
C29_LoopSurvivesExceptions ==
    /\ EndsOnlyAtTest
    /\ \A t \in Threads : (loopPc[t] = "backoff") ~> (loopPc[t] = "check" \/ ~is_running)

\* C29 witness: a check has raised, the thread is in the handler's sleep and
\* the service still runs
C29_Witness ==
    \E t \in Threads : loopPc # <<>> /\ loopPc[t] = "backoff" /\ is_running /\ reminder_thread = t

=============================================================================
